---- MODULE Spec2Model ----
(***************************************************************************)
(* Model of the waypoint synchronisation protocol of a vehicle             *)
(* (src/mission/Mission_XBee.py) and of the custom-packet queue of its RF  *)
(* sensor (src/zigbee/RF_Sensor.py).                                       *)
(*                                                                         *)
(* Spec      the packet handlers run one at a time, on the single context  *)
(*           that delivers packets; the sensor is activated and stopped,   *)
(*           so its loop drains the custom-packet queue.                   *)
(* SpecConc  waypoint_add packets are delivered on several contexts at     *)
(*           once; _add_waypoint is split at its reads and writes of the   *)
(*           shared mission state.                                         *)
(* SpecArm   the caller of arm_and_takeoff waits for the mission while the *)
(*           script is told to stop; the waiting thread is scheduled       *)
(*           fairly.                                                       *)
(* SpecEnqueue  RF_Sensor.enqueue is called with every kind of argument.   *)
(* SpecLoop  the threads that run RF_Sensor._loop next to the thread that  *)
(*           activates, deactivates, starts and stops the sensor.          *)
(* SpecTerm  the same threads with Queue.empty and Queue.get as separate    *)
(*           steps, scheduled fairly.                                      *)
(* SpecFifo  the acknowledgements of waypoint_add packets, enqueued by the  *)
(*           handler and drained by the threads of _loop.                  *)
(* SpecDiscover  RF_Sensor.discover is called with every kind of argument. *)
(* SpecPacket  the two RSSI packets are created, callback by callback.     *)
(* SpecSetup  the mission from its construction on, with setup at any time.*)
(* SpecSlot  the slots of the scheduler as time passes.                    *)
(* SpecDump  the handlers of Mission_RF_Sensor with the dump of a complete *)
(*           mission, and the restart that loads it.                       *)
(* SpecWait  the vehicle on a complete mission, waiting for other vehicles *)
(*           at its waypoints.                                             *)
(***************************************************************************)
EXTENDS Integers, Sequences, FiniteSets, TLC

\* Bounds of the model.
NumberOfSensors == 2
MaxWaypoints == 3
MaxQueue == 2
NumThreads == 2
MaxLoops == 2
MaxBuffer == 1
MaxTime == 12
MaxFrameStart == 2
MaxSlotDuration == 2

\* Python's None as a destination id (the default of `to`).
None == -1

VARIABLES
    id,                 \* RF_Sensor._id, the id of this node
    uses_takeoff,       \* whether the vehicle takes a takeoff command
    next_index,         \* Mission_XBee._next_index
    waypoints_complete, \* Mission_XBee._waypoints_complete
    commands,           \* the mission commands of the vehicle
    dump,               \* the persisted dump of the mission, NoDump if absent
    custom_packets,     \* RF_Sensor._custom_packets
    arm_pc,             \* position of the caller of arm_and_takeoff
    armed,              \* vehicle.armed
    call,               \* the operation that ran last, with its arguments
    threads,            \* delivery contexts inside _add_waypoint (SpecConc)
    activated,          \* RF_Sensor._activated
    started,            \* RF_Sensor._started
    connection,         \* RF_Sensor._connection, None or the open handle
    packets,            \* RF_Sensor._packets, the buffered measurements
    timestamp,          \* RF_Sensor._scheduler.timestamp, 0 after a reset
    loops,              \* the threads that activate spawned to run _loop
    setups,             \* number of calls of _setup
    closes,             \* number of calls of _connection.close
    interrupts,         \* number of calls of Threadable.interrupt
    now,                \* the time of the clock that in_slot reads
    frame_start,        \* the time at which the frame of slots began
    slot_duration,      \* the length of one slot
    waypoints,          \* Mission_RF_Sensor._waypoints
    current_waypoint,   \* vehicle._current_waypoint, 0 before the first one
    valid_waypoints,    \* per vehicle the waypoint it was reported valid at
    api_exit,           \* api.exit, set when the script is told to stop
    packet_callbacks    \* Environment._packet_callbacks, handler per action

sensor_vars == <<activated, started, connection, packets, timestamp, loops,
                 setups, closes, interrupts>>

scheduler_vars == <<now, frame_start, slot_duration>>

\* What no packet handler of the mission and no method of the sensor writes:
\* the scheduler's clock and frame, the exit flag of the MAVProxy API, and the
\* packet actions, which setup registers.
outside_vars == <<scheduler_vars, api_exit, packet_callbacks>>

rf_mission_vars == <<waypoints, current_waypoint, valid_waypoints>>

vars == <<id, uses_takeoff, next_index, waypoints_complete, commands, dump,
          custom_packets, arm_pc, armed, call, threads, sensor_vars,
          outside_vars, rf_mission_vars>>

Ids == 0..NumberOfSensors

----------------------------------------------------------------------------
(* Packets *)

NoPacket == [specification |-> "none"]

\* An object that is not an instance of Packet.
NotAPacket == [specification |-> "not a Packet"]

Specifications ==
    {"rssi_broadcast", "rssi_ground_station", "waypoint_clear",
     "waypoint_add", "waypoint_done", "waypoint_ack"}

\* Entry i of the mission the ground station transmits. The entries differ
\* from index to index, so that the place of an entry in the mission of the
\* vehicle tells which packet put it there.
SenderEntry(i) ==
    [latitude |-> i + 1, longitude |-> i % 2, altitude |-> 0,
     wait_id |-> i % (NumberOfSensors + 1),
     wait_count |-> i + 1,
     wait_waypoint |-> IF i % (NumberOfSensors + 1) > 0 THEN i + 7 ELSE -1]

WaypointClearPackets ==
    {[specification |-> "waypoint_clear", to_id |-> t] : t \in Ids}

\* The link may duplicate, reorder and drop: any index may arrive at any time.
WaypointAddPackets ==
    {[specification |-> "waypoint_add", to_id |-> t, index |-> i,
      latitude |-> SenderEntry(i).latitude,
      longitude |-> SenderEntry(i).longitude,
      altitude |-> SenderEntry(i).altitude,
      wait_id |-> SenderEntry(i).wait_id,
      wait_count |-> SenderEntry(i).wait_count,
      wait_waypoint |-> SenderEntry(i).wait_waypoint] :
        t \in Ids, i \in 0..(MaxWaypoints - 1)}

WaypointDonePackets ==
    {[specification |-> "waypoint_done", to_id |-> t] : t \in Ids}

isinstance_Packet(packet) == packet.specification \in Specifications

is_private(packet) ==
    packet.specification \in {"rssi_broadcast", "rssi_ground_station"}

----------------------------------------------------------------------------
(* RF_Sensor: the custom-packet queue *)

\* The loop of enqueue without `if to_id == self._id: continue`.
broadcast_to_all(packet, own_id, to_id) ==
    [i \in 1..(NumberOfSensors - to_id + 1) |->
        [packet |-> packet, to |-> to_id + i - 1]]

RECURSIVE broadcast_copies(_, _, _)
\* The loop of enqueue over xrange(1, number_of_sensors + 1), from to_id on.
broadcast_copies(packet, own_id, to_id) ==
    IF to_id > NumberOfSensors THEN <<>>
    ELSE IF to_id = own_id THEN broadcast_copies(packet, own_id, to_id + 1)
    ELSE <<[packet |-> packet, to |-> to_id]>>
             \o broadcast_copies(packet, own_id, to_id + 1)

\* enqueue without its test of is_private.
enqueue_unchecked(queue, own_id, packet, to) ==
    IF ~isinstance_Packet(packet)
    THEN [error |-> "TypeError", queue |-> queue]
    ELSE IF to = None
    THEN [error |-> "none",
          queue |-> queue \o broadcast_copies(packet, own_id, 1)]
    ELSE [error |-> "none",
          queue |-> Append(queue, [packet |-> packet, to |-> to])]

\* RF_Sensor.enqueue: the error it raises and the queue it leaves.
enqueue(queue, own_id, packet, to) ==
    IF ~isinstance_Packet(packet)
    THEN [error |-> "TypeError", queue |-> queue]
    ELSE IF is_private(packet)
    THEN [error |-> "ValueError", queue |-> queue]
    ELSE IF to = None
    THEN [error |-> "none",
          queue |-> queue \o broadcast_copies(packet, own_id, 1)]
    ELSE [error |-> "none",
          queue |-> Append(queue, [packet |-> packet, to |-> to])]

----------------------------------------------------------------------------
(* Mission_XBee *)

\* The dump file: absent, or holding the waypoints of a completed mission.
NoDump == [kind |-> "absent", waypoints |-> <<>>]

Dump(entries) == [kind |-> "valid", waypoints |-> entries]

TakeoffCommand == [command |-> "takeoff"]

\* The command add_waypoint makes of a location and its required sensors.
\* required_sensors is <<wait_id>> for the list [wait_id], <<>> for None.
WaypointCommand(latitude, longitude, altitude, required_sensors) ==
    [command |-> "waypoint", latitude |-> latitude, longitude |-> longitude,
     altitude |-> altitude, required_sensors |-> required_sensors]

IsWaypoint(c) == c.command = "waypoint"

\* The waypoints of the mission: its commands without the takeoff command.
Waypoints(cmds) == SelectSeq(cmds, IsWaypoint)

\* _send_ack without the destination: the acknowledgement is broadcast.
send_ack_broadcast(queue, own_id, index) ==
    enqueue(queue, own_id,
            [specification |-> "waypoint_ack", next_index |-> index,
             sensor_id |-> own_id], None).queue

\* Mission_XBee._send_ack: the queue after the acknowledgement is enqueued.
send_ack(queue, own_id, index) ==
    enqueue(queue, own_id,
            [specification |-> "waypoint_ack", next_index |-> index,
             sensor_id |-> own_id], 0).queue


\* The test on to_id left out.
for_any_node(own_id, packet) == TRUE

\* The test every handler starts with: whether the packet is meant for us.
for_us(own_id, packet) == own_id = packet.to_id

\* The call record of a delivered packet.
Received(packet) ==
    [op |-> "receive", packet |-> packet, to |-> None, error |-> "none"]

\* Mission.clear_mission followed by add_takeoff.
cleared_mission(takeoff) == IF takeoff THEN <<TakeoffCommand>> ELSE <<>>

\* Mission_XBee._clear_waypoints
clear_waypoints(packet) ==
    /\ call' = Received(packet)
    /\ IF ~for_us(id, packet)
       THEN UNCHANGED <<commands, next_index, custom_packets>>
       ELSE /\ commands' = cleared_mission(uses_takeoff)
            /\ next_index' = 0
            /\ custom_packets' = send_ack(custom_packets, id, 0)
    /\ UNCHANGED <<sensor_vars, outside_vars, rf_mission_vars>>
    /\ UNCHANGED <<id, uses_takeoff, waypoints_complete, dump, arm_pc, armed,
                   threads>>

\* The call of add_waypoint left out.
with_waypoint_dropped(cmds, packet) == cmds

\* Lines 114-123 of _add_waypoint: the commands with the waypoint of the
\* packet added.
with_waypoint(cmds, packet) ==
    Append(cmds,
           WaypointCommand(packet.latitude, packet.longitude, packet.altitude,
                           IF packet.wait_id > 0 THEN <<packet.wait_id>>
                           ELSE <<>>))

\* The test on the index with <= for ==: an index seen before is accepted.
index_accepted_up_to(index, expected) == index <= expected

\* The test on the index with >= for ==: an index past a gap is accepted.
index_accepted_from(index, expected) == index >= expected

\* The test of _add_waypoint on the index of the packet.
index_accepted(index, expected) == index = expected

\* The increment of _next_index by 2 for 1.
next_after_add_skipping(index) == index + 2

\* The index _add_waypoint expects after it accepted a packet with `index`.
next_after_add(index) == index + 1

\* Mission_XBee._add_waypoint
add_waypoint(packet) ==
    /\ call' = Received(packet)
    /\ IF ~for_us(id, packet)
       THEN UNCHANGED <<commands, next_index, custom_packets>>
       ELSE IF ~index_accepted(packet.index, next_index)
       THEN /\ custom_packets' = send_ack(custom_packets, id, next_index)
            /\ UNCHANGED <<commands, next_index>>
       ELSE /\ commands' = with_waypoint(commands, packet)
            /\ next_index' = next_after_add(next_index)
            /\ custom_packets' =
                   send_ack(custom_packets, id, next_after_add(next_index))
    /\ UNCHANGED <<sensor_vars, outside_vars, rf_mission_vars>>
    /\ UNCHANGED <<id, uses_takeoff, waypoints_complete, dump, arm_pc, armed,
                   threads>>

\* Mission_XBee._complete_waypoints
complete_waypoints(packet) ==
    /\ call' = Received(packet)
    /\ IF ~for_us(id, packet)
       THEN UNCHANGED waypoints_complete
       ELSE waypoints_complete' = TRUE
    /\ UNCHANGED <<sensor_vars, outside_vars, rf_mission_vars>>
    /\ UNCHANGED <<id, uses_takeoff, next_index, commands, dump,
                   custom_packets, arm_pc, armed, threads>>

\* The call record of an operation without a packet.
Called(op) == [op |-> op, packet |-> NoPacket, to |-> None, error |-> "none"]

\* Mission_XBee.get_points: the network-driven mission has no points of its
\* own.
get_points == <<>>

\* The call record of an operation that ended with `error`.
Failed(op, error) == [Called(op) EXCEPT !.error = error]

\* What a direct call of Mission_XBee.add_commands raises: its body is `pass`.
add_commands_error == "none"

\* Mission_XBee.add_commands, called directly.
add_commands ==
    /\ call' = Failed("add_commands", add_commands_error)
    /\ UNCHANGED <<sensor_vars, outside_vars, rf_mission_vars>>
    /\ UNCHANGED <<id, uses_takeoff, next_index, waypoints_complete, commands,
                   dump, custom_packets, arm_pc, armed, threads>>

\* Mission_XBee.get_points, called directly.
get_points_call ==
    /\ call' = Called("get_points")
    /\ UNCHANGED <<sensor_vars, outside_vars, rf_mission_vars>>
    /\ UNCHANGED <<id, uses_takeoff, next_index, waypoints_complete, commands,
                   dump, custom_packets, arm_pc, armed, threads>>

\* Mission_XBee.arm_and_takeoff is called (mission_basic.py, Setup.setup).
arm_and_takeoff_call ==
    /\ arm_pc = "idle"
    /\ arm_pc' = "waiting"
    /\ call' = Called("arm_and_takeoff")
    /\ UNCHANGED <<sensor_vars, outside_vars, rf_mission_vars>>
    /\ UNCHANGED <<id, uses_takeoff, next_index, waypoints_complete, commands,
                   dump, custom_packets, armed, threads>>

\* The while loop left out: the wait ends at once.
wait_is_skipped(complete) == TRUE

\* The test of the while loop of arm_and_takeoff that ends the wait.
wait_is_over(complete) == complete

\* One test of the while loop that finds the waypoints complete. A test
\* that finds them incomplete sleeps and leaves the state as it is.
arm_and_takeoff_poll ==
    /\ arm_pc = "waiting"
    /\ wait_is_over(waypoints_complete)
    /\ arm_pc' = "arming"
    /\ call' = Called("arm_and_takeoff")
    /\ UNCHANGED <<sensor_vars, outside_vars, rf_mission_vars>>
    /\ UNCHANGED <<id, uses_takeoff, next_index, waypoints_complete, commands,
                   dump, custom_packets, armed, threads>>

\* super(Mission_XBee, self).arm_and_takeoff(): Mission.arm_and_takeoff
\* arms the vehicle.
arm_and_takeoff_super ==
    /\ arm_pc = "arming"
    /\ arm_pc' = "done"
    /\ armed' = TRUE
    /\ call' = Called("arm_and_takeoff")
    /\ UNCHANGED <<sensor_vars, outside_vars, rf_mission_vars>>
    /\ UNCHANGED <<id, uses_takeoff, next_index, waypoints_complete, commands,
                   dump, custom_packets, threads>>

\* RF_Sensor._send_custom_packets, run by the loop of a stopped sensor whose
\* connection is open: every queued packet is handed to the connection.
send_custom_packets ==
    /\ custom_packets # <<>>
    /\ custom_packets' = <<>>
    /\ call' = Called("send_custom_packets")
    /\ UNCHANGED <<sensor_vars, outside_vars, rf_mission_vars>>
    /\ UNCHANGED <<id, uses_takeoff, next_index, waypoints_complete, commands,
                   dump, arm_pc, armed, threads>>

\* Environment._packet_callbacks before any action is registered.
NoCallbacks == [action \in {} |-> "none"]

\* Environment.add_packet_action: the callbacks with `callback` registered
\* for the packets of specification `action`.
add_packet_action(callbacks, action, callback) ==
    [a \in DOMAIN callbacks \cup {action} |->
        IF a = action THEN callback ELSE callbacks[a]]

\* The three registrations of Mission_XBee.setup.
setup_callbacks(callbacks) ==
    add_packet_action(
        add_packet_action(
            add_packet_action(callbacks, "waypoint_clear", "_clear_waypoints"),
            "waypoint_add", "_add_waypoint"),
        "waypoint_done", "_complete_waypoints")

\* setup without the assignment of _next_index.
setup_keeping_index ==
    /\ commands' = <<>>
    /\ packet_callbacks' = setup_callbacks(packet_callbacks)
    /\ waypoints_complete' = FALSE
    /\ call' = Called("setup")
    /\ UNCHANGED <<sensor_vars, scheduler_vars, api_exit, rf_mission_vars>>
    /\ UNCHANGED <<id, uses_takeoff, next_index, dump, custom_packets, arm_pc,
                   armed, threads>>

\* Mission_XBee.setup: the setup of the parent classes leaves a cleared
\* mission, to which add_commands adds nothing.
setup ==
    /\ commands' = <<>>
    /\ packet_callbacks' = setup_callbacks(packet_callbacks)
    /\ waypoints_complete' = FALSE
    /\ next_index' = 0
    /\ call' = Called("setup")
    /\ UNCHANGED <<sensor_vars, scheduler_vars, api_exit, rf_mission_vars>>
    /\ UNCHANGED <<id, uses_takeoff, dump, custom_packets, arm_pc, armed,
                   threads>>

\* Environment.receive_packet: the packet goes to the callback registered
\* for its specification, if there is one.
receive_packet(packet) ==
    /\ packet.specification \in DOMAIN packet_callbacks
    /\ LET callback == packet_callbacks[packet.specification]
       IN  \/ callback = "_clear_waypoints" /\ clear_waypoints(packet)
           \/ callback = "_add_waypoint" /\ add_waypoint(packet)
           \/ callback = "_complete_waypoints" /\ complete_waypoints(packet)

LoopIds == 1..MaxLoops

NoItem == [packet |-> NoPacket, to |-> None]

\* No thread runs _loop yet.
NoLoops == [t \in LoopIds |-> [pc |-> "unborn", item |-> NoItem, to_id |-> 0]]

IdleThreads == [t \in 1..NumThreads |-> [pc |-> "idle", packet |-> NoPacket,
                                         index |-> 0]]

\* The state after Mission_XBee.setup. The dump is a file that an earlier
\* run may have left behind.
InitUnscheduled ==
    /\ id \in Ids
    /\ uses_takeoff \in BOOLEAN
    /\ next_index = 0
    /\ waypoints_complete = FALSE
    /\ commands = <<>>
    /\ dump \in {NoDump, Dump(<<>>)}
    /\ custom_packets = <<>>
    /\ arm_pc = "idle"
    /\ armed = FALSE
    /\ call = Called("setup")
    /\ threads = IdleThreads
    /\ activated = FALSE
    /\ started = FALSE
    /\ connection = None
    /\ packets = <<>>
    /\ timestamp = 0
    /\ loops = NoLoops
    /\ setups = 0
    /\ closes = 0
    /\ interrupts = 0
    /\ waypoints = <<>>
    /\ current_waypoint = 0
    /\ valid_waypoints = [i \in Ids |-> None]
    /\ api_exit = FALSE
    /\ packet_callbacks = setup_callbacks(NoCallbacks)

\* The scheduler is not used: its clock and its frame stay as they are.
Init ==
    /\ InitUnscheduled
    /\ now = 0
    /\ frame_start = 0
    /\ slot_duration = 1

QueueHasRoom == Len(custom_packets) < MaxQueue

Next ==
    \/ \E packet \in WaypointClearPackets :
           QueueHasRoom /\ clear_waypoints(packet)
    \/ \E packet \in WaypointAddPackets :
           QueueHasRoom /\ add_waypoint(packet)
    \/ \E packet \in WaypointDonePackets : complete_waypoints(packet)
    \/ arm_and_takeoff_call
    \/ arm_and_takeoff_poll
    \/ arm_and_takeoff_super
    \/ send_custom_packets
    \/ add_commands
    \/ get_points_call

Spec == Init /\ [][Next]_vars

----------------------------------------------------------------------------
(* The mission from its construction on: setup registers the handlers, and  *)
(* may be called again at any time.                                         *)

\* The mission and its environment are constructed and setup was not called:
\* no action is registered. _next_index and _waypoints_complete are not
\* assigned yet; nothing reads them before setup.
InitSetup ==
    /\ id \in Ids
    /\ uses_takeoff \in BOOLEAN
    /\ next_index \in 0..MaxWaypoints
    /\ waypoints_complete \in BOOLEAN
    /\ commands = <<>>
    /\ dump = NoDump
    /\ custom_packets = <<>>
    /\ arm_pc = "idle"
    /\ armed = FALSE
    /\ call = Called("__init__")
    /\ threads = IdleThreads
    /\ activated = FALSE
    /\ started = FALSE
    /\ connection = None
    /\ packets = <<>>
    /\ timestamp = 0
    /\ loops = NoLoops
    /\ setups = 0
    /\ closes = 0
    /\ interrupts = 0
    /\ waypoints = <<>>
    /\ current_waypoint = 0
    /\ valid_waypoints = [i \in Ids |-> None]
    /\ api_exit = FALSE
    /\ packet_callbacks = NoCallbacks
    /\ now = 0
    /\ frame_start = 0
    /\ slot_duration = 1

NextSetup ==
    \/ setup
    \/ \E packet \in WaypointClearPackets \cup WaypointAddPackets
                         \cup WaypointDonePackets :
           QueueHasRoom /\ receive_packet(packet)
    \/ send_custom_packets

SpecSetup == InitSetup /\ [][NextSetup]_vars

----------------------------------------------------------------------------
(* The wait of arm_and_takeoff and the signals that tell the script to stop *)

\* MAVProxy's `api stop`: the exit flag of the API is set. The loops of
\* Mission.arm_and_takeoff read it (Mission.py, lines 119 and 133); the loop of
\* Mission_XBee.arm_and_takeoff reads waypoints_complete and nothing else.
api_stop ==
    /\ ~api_exit
    /\ api_exit' = TRUE
    /\ call' = Called("api stop")
    /\ UNCHANGED <<sensor_vars, scheduler_vars, packet_callbacks,
                   rf_mission_vars>>
    /\ UNCHANGED <<id, uses_takeoff, next_index, waypoints_complete, commands,
                   dump, custom_packets, arm_pc, armed, threads>>

\* A KeyboardInterrupt reaches the thread inside time.sleep(1): the exception
\* leaves arm_and_takeoff and main (mission_basic.py) catches it.
keyboard_interrupt ==
    /\ arm_pc = "waiting"
    /\ arm_pc' = "interrupted"
    /\ call' = Failed("arm_and_takeoff", "KeyboardInterrupt")
    /\ UNCHANGED <<sensor_vars, outside_vars, rf_mission_vars>>
    /\ UNCHANGED <<id, uses_takeoff, next_index, waypoints_complete, commands,
                   dump, custom_packets, armed, threads>>

NextArm ==
    \/ \E packet \in WaypointDonePackets : complete_waypoints(packet)
    \/ arm_and_takeoff_call
    \/ arm_and_takeoff_poll
    \/ arm_and_takeoff_super
    \/ api_stop
    \/ keyboard_interrupt

\* The thread that runs arm_and_takeoff keeps running: a test of its loop that
\* can end the wait is made, and the arming that follows is done.
SpecArm ==
    /\ Init
    /\ [][NextArm]_vars
    /\ WF_vars(arm_and_takeoff_poll)
    /\ WF_vars(arm_and_takeoff_super)

----------------------------------------------------------------------------
(* RF_Sensor.enqueue called with every kind of argument *)

\* The packets handed to enqueue: the two private specifications, a public
\* packet and an object that is no Packet. enqueue reads nothing of a packet
\* but its class and its specification.
EnqueuedPackets ==
    {[specification |-> "rssi_broadcast"],
     [specification |-> "rssi_ground_station"],
     [specification |-> "waypoint_ack", next_index |-> 0, sensor_id |-> 0],
     NotAPacket}

Destinations == {None} \cup Ids

\* A call of RF_Sensor.enqueue(packet, to).
enqueue_call(packet, to) ==
    LET result == enqueue(custom_packets, id, packet, to) IN
    /\ Len(result.queue) <= MaxQueue
    /\ custom_packets' = result.queue
    /\ call' = [op |-> "enqueue", packet |-> packet, to |-> to,
                error |-> result.error]
    /\ UNCHANGED <<sensor_vars, outside_vars, rf_mission_vars>>
    /\ UNCHANGED <<id, uses_takeoff, next_index, waypoints_complete, commands,
                   dump, arm_pc, armed, threads>>

NextEnqueue ==
    \/ \E packet \in EnqueuedPackets, to \in Destinations :
           enqueue_call(packet, to)
    \/ send_custom_packets

SpecEnqueue == Init /\ [][NextEnqueue]_vars

----------------------------------------------------------------------------
(* _add_waypoint on several delivery contexts at once. The handler takes no *)
(* lock, so a context may be suspended between any two of its reads and     *)
(* writes of the mission state.                                             *)

Threads == 1..NumThreads

\* What holds of thread t apart from its position.
At(t, pc) == threads[t].pc = pc

Goto(t, pc) == threads' = [threads EXCEPT ![t].pc = pc]

\* A waypoint_add packet is handed to _add_waypoint on context t.
add_deliver(t, packet) ==
    /\ At(t, "idle")
    /\ threads' = [threads EXCEPT ![t] = [pc |-> "check", packet |-> packet,
                                          index |-> 0]]
    /\ UNCHANGED <<sensor_vars, outside_vars, rf_mission_vars>>
    /\ UNCHANGED <<id, uses_takeoff, next_index, waypoints_complete, commands,
                   dump, custom_packets, arm_pc, armed, call>>

\* Lines 102-112: the tests on to_id and on the index.
add_check(t) ==
    /\ At(t, "check")
    /\ IF ~for_us(id, threads[t].packet)
       THEN Goto(t, "idle")
       ELSE IF ~index_accepted(threads[t].packet.index, next_index)
       THEN Goto(t, "ack")
       ELSE Goto(t, "add")
    /\ UNCHANGED <<sensor_vars, outside_vars, rf_mission_vars>>
    /\ UNCHANGED <<id, uses_takeoff, next_index, waypoints_complete, commands,
                   dump, custom_packets, arm_pc, armed, call>>

\* Lines 114-123: the waypoint is added to the mission.
add_append(t) ==
    /\ At(t, "add")
    /\ commands' = with_waypoint(commands, threads[t].packet)
    /\ Goto(t, "load")
    /\ UNCHANGED <<sensor_vars, outside_vars, rf_mission_vars>>
    /\ UNCHANGED <<id, uses_takeoff, next_index, waypoints_complete, dump,
                   custom_packets, arm_pc, armed, call>>

\* Line 124, `self._next_index += 1`: the read of _next_index.
add_load(t) ==
    /\ At(t, "load")
    /\ threads' = [threads EXCEPT ![t].index = next_index, ![t].pc = "store"]
    /\ UNCHANGED <<sensor_vars, outside_vars, rf_mission_vars>>
    /\ UNCHANGED <<id, uses_takeoff, next_index, waypoints_complete, commands,
                   dump, custom_packets, arm_pc, armed, call>>

\* Line 124: the write of _next_index.
add_store(t) ==
    /\ At(t, "store")
    /\ next_index' = next_after_add(threads[t].index)
    /\ Goto(t, "ack")
    /\ UNCHANGED <<sensor_vars, outside_vars, rf_mission_vars>>
    /\ UNCHANGED <<id, uses_takeoff, waypoints_complete, commands, dump,
                   custom_packets, arm_pc, armed, call>>

\* Lines 111 and 125: _send_ack, which reads _next_index, and the return.
add_ack(t) ==
    /\ At(t, "ack")
    /\ custom_packets' = send_ack(custom_packets, id, next_index)
    /\ threads' = [threads EXCEPT ![t] = IdleThreads[t]]
    /\ UNCHANGED <<sensor_vars, outside_vars, rf_mission_vars>>
    /\ UNCHANGED <<id, uses_takeoff, next_index, waypoints_complete, commands,
                   dump, arm_pc, armed, call>>

\* The packets delivered at once are addressed to any vehicle.
NextConc ==
    \/ \E t \in Threads, packet \in WaypointAddPackets :
           add_deliver(t, packet)
    \/ \E t \in Threads : add_check(t)
    \/ \E t \in Threads : add_append(t)
    \/ \E t \in Threads : add_load(t)
    \/ \E t \in Threads : add_store(t)
    \/ \E t \in Threads : QueueHasRoom /\ add_ack(t)
    \/ send_custom_packets

\* _add_waypoint reads neither the dump nor whether the vehicle takes off:
\* the deliveries start on a vehicle without either.
InitConc == Init /\ ~uses_takeoff /\ dump = NoDump

SpecConc == InitConc /\ [][NextConc]_vars

----------------------------------------------------------------------------
(* The processing loop of RF_Sensor next to the thread that controls the    *)
(* sensor. _loop runs on a thread of its own and takes no lock: it may be   *)
(* suspended between any two of its reads and writes of the sensor state.   *)

mission_vars == <<id, uses_takeoff, next_index, waypoints_complete, commands,
                  dump, arm_pc, armed, threads>>

LoopAt(t, pc) == loops[t].pc = pc

\* The threads inside _loop.
Running == {t \in LoopIds :
               loops[t].pc \notin {"unborn", "ended", "disabled", "interrupted"}}

\* activate that spawns a loop at every call.
activate_unguarded ==
    /\ \E t \in LoopIds : LoopAt(t, "unborn")
    /\ activated' = TRUE
    /\ connection' = IF connection = None THEN setups + 1 ELSE connection
    /\ setups' = IF connection = None THEN setups + 1 ELSE setups
    /\ LET t == CHOOSE u \in LoopIds :
                    LoopAt(u, "unborn") /\ \A v \in 1..(u - 1) : ~LoopAt(v, "unborn")
       IN  loops' = [loops EXCEPT ![t].pc = "while"]
    /\ call' = Called("activate")
    /\ UNCHANGED <<started, packets, timestamp, closes, interrupts,
                   custom_packets, mission_vars,
                   outside_vars, rf_mission_vars>>

\* RF_Sensor.activate: _setup opens a connection, start_new_thread spawns a
\* thread at the head of _loop.
activate ==
    /\ activated \/ \E t \in LoopIds : LoopAt(t, "unborn")
    /\ IF ~activated
       THEN /\ activated' = TRUE
            /\ connection' = IF connection = None THEN setups + 1
                             ELSE connection
            /\ setups' = IF connection = None THEN setups + 1 ELSE setups
            /\ LET t == CHOOSE u \in LoopIds :
                            /\ LoopAt(u, "unborn")
                            /\ \A v \in 1..(u - 1) : ~LoopAt(v, "unborn")
               IN  loops' = [loops EXCEPT ![t].pc = "while"]
       ELSE UNCHANGED <<activated, connection, setups, loops>>
    /\ call' = Called("activate")
    /\ UNCHANGED <<started, packets, timestamp, closes, interrupts,
                   custom_packets, mission_vars,
                   outside_vars, rf_mission_vars>>

\* deactivate that closes the connection and keeps the handle.
deactivate_keeping_handle ==
    /\ IF activated
       THEN /\ activated' = FALSE
            /\ closes' = IF connection # None THEN closes + 1 ELSE closes
       ELSE UNCHANGED <<activated, closes>>
    /\ call' = Called("deactivate")
    /\ UNCHANGED <<connection, started, packets, timestamp, loops, setups,
                   interrupts, custom_packets, mission_vars,
                   outside_vars, rf_mission_vars>>

\* RF_Sensor.deactivate.
deactivate ==
    /\ IF activated
       THEN /\ activated' = FALSE
            /\ IF connection # None
               THEN /\ closes' = closes + 1
                    /\ connection' = None
               ELSE UNCHANGED <<closes, connection>>
       ELSE UNCHANGED <<activated, closes, connection>>
    /\ call' = Called("deactivate")
    /\ UNCHANGED <<started, packets, timestamp, loops, setups, interrupts,
                   custom_packets, mission_vars,
                   outside_vars, rf_mission_vars>>

\* start that keeps the buffered measurements.
start_keeping_packets ==
    /\ timestamp' = 1
    /\ started' = TRUE
    /\ call' = Called("start")
    /\ UNCHANGED <<activated, connection, packets, loops, setups, closes,
                   interrupts, custom_packets, mission_vars,
                   outside_vars, rf_mission_vars>>

\* RF_Sensor.start: the scheduler is synchronised, the buffered measurements
\* are dropped.
start ==
    /\ timestamp' = 1
    /\ packets' = <<>>
    /\ started' = TRUE
    /\ call' = Called("start")
    /\ UNCHANGED <<activated, connection, loops, setups, closes, interrupts,
                   custom_packets, mission_vars,
                   outside_vars, rf_mission_vars>>

\* RF_Sensor.stop.
stop ==
    /\ started' = FALSE
    /\ timestamp' = 0
    /\ call' = Called("stop")
    /\ UNCHANGED <<activated, connection, packets, loops, setups, closes,
                   interrupts, custom_packets, mission_vars,
                   outside_vars, rf_mission_vars>>

\* A broadcast of vehicle from_id arrives over the open connection and its
\* measurement is buffered for the ground station.
buffer_measurement(from_id) ==
    /\ connection # None
    /\ Len(packets) < MaxBuffer
    /\ packets' = Append(packets, [specification |-> "rssi_ground_station",
                                   sensor_id |-> id, from_id |-> from_id])
    /\ call' = Called("buffer")
    /\ UNCHANGED <<activated, started, connection, timestamp, loops, setups,
                   closes, interrupts, custom_packets, mission_vars,
                   outside_vars, rf_mission_vars>>

\* _create_rssi_broadcast_packet, without the location and the validity
\* that the callbacks report.
create_rssi_broadcast_packet(own_id) ==
    [specification |-> "rssi_broadcast", sensor_id |-> own_id]

\* How _send_tx_frame(packet, to) ends when the connection is `conn`.
send_tx_frame(conn, packet, to) ==
    IF conn = None THEN "DisabledException"
    ELSE IF ~isinstance_Packet(packet) \/ to = None THEN "TypeError"
    ELSE "none"

\* The record of a frame that _send_tx_frame was called with.
Frame(packet, to, error) ==
    [op |-> "_send_tx_frame", packet |-> packet, to |-> to, error |-> error]

\* _loop that answers every exception with interrupt.
loop_interrupts_always(t, error, pc, item, to_id) ==
    /\ loops' = [loops EXCEPT ![t] =
           IF error = "none"
           THEN [pc |-> pc, item |-> item, to_id |-> to_id]
           ELSE [pc |-> "interrupted", item |-> NoItem, to_id |-> 0]]
    /\ interrupts' = IF error = "none" THEN interrupts ELSE interrupts + 1

\* The try statement of _loop around a step of _loop_body that ended with
\* `error`: DisabledException ends the thread, any other exception ends it
\* after interrupt; without one the thread goes on at pc.
loop_handles(t, error, pc, item, to_id) ==
    /\ loops' = [loops EXCEPT ![t] =
           IF error = "none"
           THEN [pc |-> pc, item |-> item, to_id |-> to_id]
           ELSE [pc |-> IF error = "DisabledException" THEN "disabled"
                        ELSE "interrupted",
                 item |-> NoItem, to_id |-> 0]]
    /\ interrupts' = IF error \in {"none", "DisabledException"}
                     THEN interrupts ELSE interrupts + 1

\* `while self._activated` of _loop.
loop_while(t) ==
    /\ LoopAt(t, "while")
    /\ loops' = [loops EXCEPT ![t].pc = IF activated THEN "if" ELSE "ended"]
    /\ call' = Called("_loop")
    /\ UNCHANGED <<activated, started, connection, packets, timestamp, setups,
                   closes, interrupts, custom_packets, mission_vars,
                   outside_vars, rf_mission_vars>>

\* The test of the scheduled branch without the test of the id.
scheduled_any_id(own_id, in_slot) == in_slot

\* `self._id > 0 and self._scheduler.in_slot`, the test of the scheduled
\* branch of _loop_body.
scheduled(own_id, in_slot) == own_id > 0 /\ in_slot

\* The call record of the branch of _loop_body, with what the scheduler
\* answered at that time.
Branched(in_slot) ==
    Called(IF in_slot THEN "_loop_body, in slot" ELSE "_loop_body, off slot")

\* _loop_body that updates the scheduler also when the node is not in its
\* slot.
loop_body_updating_off_slot(t, in_slot) ==
    /\ LoopAt(t, "if")
    /\ loops' = [loops EXCEPT ![t] =
           IF ~started
           THEN [pc |-> "custom", item |-> NoItem, to_id |-> 0]
           ELSE IF scheduled(id, in_slot)
           THEN [pc |-> "for", item |-> NoItem, to_id |-> 1]
           ELSE [pc |-> "update", item |-> NoItem, to_id |-> 0]]
    /\ call' = Branched(in_slot)
    /\ UNCHANGED <<activated, started, connection, packets, timestamp, setups,
                   closes, interrupts, custom_packets, mission_vars,
                   outside_vars, rf_mission_vars>>

\* The branch of _loop_body; in_slot is what the scheduler answers at this
\* time.
loop_body(t, in_slot) ==
    /\ LoopAt(t, "if")
    /\ loops' = [loops EXCEPT ![t] =
           IF ~started
           THEN [pc |-> "custom", item |-> NoItem, to_id |-> 0]
           ELSE IF scheduled(id, in_slot)
           THEN [pc |-> "for", item |-> NoItem, to_id |-> 1]
           ELSE [pc |-> "while", item |-> NoItem, to_id |-> 0]]
    /\ call' = Branched(in_slot)
    /\ UNCHANGED <<activated, started, connection, packets, timestamp, setups,
                   closes, interrupts, custom_packets, mission_vars,
                   outside_vars, rf_mission_vars>>

\* `while not self._custom_packets.empty(): item = get()` of
\* _send_custom_packets.
custom_get(t) ==
    /\ LoopAt(t, "custom")
    /\ IF custom_packets = <<>>
       THEN /\ loops' = [loops EXCEPT ![t].pc = "while"]
            /\ UNCHANGED custom_packets
       ELSE /\ loops' = [loops EXCEPT ![t].pc = "custom_tx",
                                      ![t].item = Head(custom_packets)]
            /\ custom_packets' = Tail(custom_packets)
    /\ call' = Called("_loop")
    /\ UNCHANGED <<activated, started, connection, packets, timestamp, setups,
                   closes, interrupts, mission_vars,
                   outside_vars, rf_mission_vars>>

\* _send_tx_frame of the item that _send_custom_packets took.
custom_tx(t) ==
    LET item == loops[t].item
        error == send_tx_frame(connection, item.packet, item.to) IN
    /\ LoopAt(t, "custom_tx")
    /\ loop_handles(t, error, "custom", NoItem, 0)
    /\ call' = Frame(item.packet, item.to, error)
    /\ UNCHANGED <<activated, started, connection, packets, timestamp, setups,
                   closes, custom_packets, mission_vars,
                   outside_vars, rf_mission_vars>>

\* One round of the for loop of _send: the slot is tested, the broadcast for
\* to_id is made, which fails when a callback raises, and transmitted.
send_broadcast(t, in_slot, raises) ==
    LET to_id == loops[t].to_id
        after == IF to_id < NumberOfSensors THEN "for" ELSE "relay"
        packet == create_rssi_broadcast_packet(id)
        error == IF raises THEN "Exception"
                 ELSE send_tx_frame(connection, packet, to_id) IN
    /\ LoopAt(t, "for")
    /\ IF ~in_slot
       THEN /\ loops' = [loops EXCEPT ![t].pc = "update", ![t].to_id = 0]
            /\ call' = Called("_send, off slot")
            /\ UNCHANGED interrupts
       ELSE IF to_id = id
       THEN /\ loops' = [loops EXCEPT ![t].pc = after,
                                      ![t].to_id = to_id + 1]
            /\ call' = Called("_loop")
            /\ UNCHANGED interrupts
       ELSE /\ loop_handles(t, error, after, NoItem, to_id + 1)
            /\ call' = IF raises
                       THEN [Called("_create_rssi_broadcast_packet")
                                 EXCEPT !.error = error]
                       ELSE Frame(packet, to_id, error)
    /\ UNCHANGED <<activated, started, connection, packets, timestamp, setups,
                   closes, custom_packets, mission_vars,
                   outside_vars, rf_mission_vars>>

\* The relay loop of _send without its test of in_slot: a measurement is
\* taken whatever the scheduler answers.
relay_get_ignoring_slot(t, in_slot) ==
    /\ LoopAt(t, "relay")
    /\ IF packets = <<>>
       THEN /\ loops' = [loops EXCEPT ![t].pc = "update", ![t].to_id = 0]
            /\ UNCHANGED packets
       ELSE /\ loops' = [loops EXCEPT ![t].pc = "relay_tx",
                             ![t].item = [packet |-> Head(packets), to |-> 0]]
            /\ packets' = Tail(packets)
    /\ call' = Called(IF packets # <<>> /\ ~in_slot
                      THEN "_send, off slot" ELSE "_loop")
    /\ UNCHANGED <<activated, started, connection, timestamp, setups, closes,
                   interrupts, custom_packets, mission_vars,
                   outside_vars, rf_mission_vars>>

\* `while not self._packets.empty() and in_slot: packet = get()` of _send.
relay_get(t, in_slot) ==
    /\ LoopAt(t, "relay")
    /\ IF packets = <<>> \/ ~in_slot
       THEN /\ loops' = [loops EXCEPT ![t].pc = "update", ![t].to_id = 0]
            /\ UNCHANGED packets
       ELSE /\ loops' = [loops EXCEPT ![t].pc = "relay_tx",
                             ![t].item = [packet |-> Head(packets), to |-> 0]]
            /\ packets' = Tail(packets)
    /\ call' = Called(IF packets # <<>> /\ ~in_slot
                      THEN "_send, off slot" ELSE "_loop")
    /\ UNCHANGED <<activated, started, connection, timestamp, setups, closes,
                   interrupts, custom_packets, mission_vars,
                   outside_vars, rf_mission_vars>>

\* _send_tx_frame(packet, 0) of the measurement that _send took.
relay_tx(t) ==
    LET item == loops[t].item
        error == send_tx_frame(connection, item.packet, item.to) IN
    /\ LoopAt(t, "relay_tx")
    /\ loop_handles(t, error, "relay", NoItem, 0)
    /\ call' = Frame(item.packet, item.to, error)
    /\ UNCHANGED <<activated, started, connection, packets, timestamp, setups,
                   closes, custom_packets, mission_vars,
                   outside_vars, rf_mission_vars>>

\* self._scheduler.update() after _send.
scheduler_update(t) ==
    /\ LoopAt(t, "update")
    /\ timestamp' = 1
    /\ loops' = [loops EXCEPT ![t].pc = "while"]
    /\ call' = Called("_loop")
    /\ UNCHANGED <<activated, started, connection, packets, setups, closes,
                   interrupts, custom_packets, mission_vars,
                   outside_vars, rf_mission_vars>>

\* The vehicle whose broadcasts are measured while the loop runs.
LoopPeers == {IF id = 1 THEN 2 ELSE 1}

\* The packets the mission hands to enqueue while the loop runs.
LoopPackets ==
    {[specification |-> "waypoint_ack", next_index |-> 0, sensor_id |-> id]}

NextLoop ==
    \/ activate
    \/ deactivate
    \/ start
    \/ stop
    \/ \E packet \in LoopPackets :
           Len(custom_packets) < MaxBuffer /\ enqueue_call(packet, 0)
    \/ \E from_id \in LoopPeers : buffer_measurement(from_id)
    \/ \E t \in LoopIds : loop_while(t)
    \/ \E t \in LoopIds, in_slot \in BOOLEAN : loop_body(t, in_slot)
    \/ \E t \in LoopIds : custom_get(t)
    \/ \E t \in LoopIds : custom_tx(t)
    \/ \E t \in LoopIds, in_slot \in BOOLEAN, raises \in BOOLEAN :
           send_broadcast(t, in_slot, raises)
    \/ \E t \in LoopIds, in_slot \in BOOLEAN : relay_get(t, in_slot)
    \/ \E t \in LoopIds : relay_tx(t)
    \/ \E t \in LoopIds : scheduler_update(t)

\* The loop reads neither the mission nor the dump, and of the id only
\* whether it is the one of the ground station or of a vehicle.
InitLoop == Init /\ id \in {0, 1} /\ ~uses_takeoff /\ dump = NoDump

SpecLoop == InitLoop /\ [][NextLoop]_vars

----------------------------------------------------------------------------
(* The loop with every call of Queue.empty and Queue.get a step of its own:  *)
(* get blocks while its queue is empty. The threads of _loop are scheduled   *)
(* fairly and the callbacks raise nothing.                                   *)

\* `not self._custom_packets.empty()`, the test of the loop of
\* _send_custom_packets.
custom_empty(t) ==
    /\ LoopAt(t, "custom")
    /\ loops' = [loops EXCEPT ![t].pc = IF custom_packets = <<>>
                                        THEN "while" ELSE "custom_get"]
    /\ call' = Called("_loop")
    /\ UNCHANGED <<activated, started, connection, packets, timestamp, setups,
                   closes, interrupts, custom_packets, mission_vars,
                   outside_vars, rf_mission_vars>>

\* `item = self._custom_packets.get()`: the call returns once the queue holds
\* an item.
custom_take(t) ==
    /\ LoopAt(t, "custom_get")
    /\ custom_packets # <<>>
    /\ loops' = [loops EXCEPT ![t].pc = "custom_tx",
                              ![t].item = Head(custom_packets)]
    /\ custom_packets' = Tail(custom_packets)
    /\ call' = Called("_loop")
    /\ UNCHANGED <<activated, started, connection, packets, timestamp, setups,
                   closes, interrupts, mission_vars,
                   outside_vars, rf_mission_vars>>

\* `not self._packets.empty() and self._scheduler.in_slot`, the test of the
\* relay loop of _send.
relay_empty(t, in_slot) ==
    /\ LoopAt(t, "relay")
    /\ loops' = [loops EXCEPT ![t].pc = IF packets = <<>> \/ ~in_slot
                                        THEN "update" ELSE "relay_get",
                              ![t].to_id = 0]
    /\ call' = Called("_loop")
    /\ UNCHANGED <<activated, started, connection, packets, timestamp, setups,
                   closes, interrupts, custom_packets, mission_vars,
                   outside_vars, rf_mission_vars>>

\* `packet = self._packets.get()`, on the queue that self._packets names at
\* the time of the call: the call returns once that queue holds a packet.
relay_take(t) ==
    /\ LoopAt(t, "relay_get")
    /\ packets # <<>>
    /\ loops' = [loops EXCEPT ![t].pc = "relay_tx",
                              ![t].item = [packet |-> Head(packets), to |-> 0]]
    /\ packets' = Tail(packets)
    /\ call' = Called("_loop")
    /\ UNCHANGED <<activated, started, connection, timestamp, setups, closes,
                   interrupts, custom_packets, mission_vars,
                   outside_vars, rf_mission_vars>>

\* The steps of thread t of _loop.
LoopStep(t) ==
    \/ loop_while(t)
    \/ \E in_slot \in BOOLEAN : loop_body(t, in_slot)
    \/ custom_empty(t)
    \/ custom_take(t)
    \/ custom_tx(t)
    \/ \E in_slot \in BOOLEAN : send_broadcast(t, in_slot, FALSE)
    \/ \E in_slot \in BOOLEAN : relay_empty(t, in_slot)
    \/ relay_take(t)
    \/ relay_tx(t)
    \/ scheduler_update(t)

NextTerm ==
    \/ activate
    \/ deactivate
    \/ start
    \/ stop
    \/ \E packet \in LoopPackets :
           Len(custom_packets) < MaxBuffer /\ enqueue_call(packet, 0)
    \/ \E from_id \in LoopPeers : buffer_measurement(from_id)
    \/ \E t \in LoopIds : LoopStep(t)

\* Every thread of _loop that can take a step takes one.
SpecTerm ==
    /\ InitLoop
    /\ [][NextTerm]_vars
    /\ \A t \in LoopIds : WF_vars(LoopStep(t))

----------------------------------------------------------------------------
(* The acknowledgements of the mission on their way through the queue: the   *)
(* handler of waypoint_add enqueues them, the threads of _loop of a stopped  *)
(* sensor drain them.                                                        *)

NextFifo ==
    \/ \E packet \in WaypointAddPackets :
           /\ packet.to_id = id
           /\ QueueHasRoom
           /\ add_waypoint(packet)
    \/ activate
    \/ deactivate
    \/ \E t \in LoopIds : loop_while(t)
    \/ \E t \in LoopIds, in_slot \in BOOLEAN : loop_body(t, in_slot)
    \/ \E t \in LoopIds : custom_get(t)
    \/ \E t \in LoopIds : custom_tx(t)

SpecFifo == InitLoop /\ [][NextFifo]_vars

----------------------------------------------------------------------------
(* RF_Sensor.discover called with every kind of argument *)

\* The values of required_sensors: None, a set of ids, among them 0 and an id
\* past the last vehicle, and an object that is neither.
RequiredSensors ==
    {[kind |-> "None", ids |-> {}], [kind |-> "list", ids |-> {}]}
        \cup {[kind |-> "set", ids |-> ids] :
                  ids \in SUBSET (0..(NumberOfSensors + 1))}

\* discover that takes the ground station for a vehicle.
discover_with_ground_station(callable, required_sensors) ==
    IF ~callable THEN "TypeError"
    ELSE IF required_sensors.kind = "set"
    THEN IF required_sensors.ids \subseteq 0..NumberOfSensors
         THEN "none" ELSE "ValueError"
    ELSE IF required_sensors.kind # "None" THEN "TypeError"
    ELSE "none"

\* RF_Sensor.discover: the error it raises.
discover(callable, required_sensors) ==
    IF ~callable THEN "TypeError"
    ELSE IF required_sensors.kind = "set"
    THEN IF required_sensors.ids \subseteq 1..NumberOfSensors
         THEN "none" ELSE "ValueError"
    ELSE IF required_sensors.kind # "None" THEN "TypeError"
    ELSE "none"

\* A call of RF_Sensor.discover(callback, required_sensors); the record keeps
\* the arguments.
discover_call(callable, required_sensors) ==
    /\ call' = [op |-> "discover",
                packet |-> [specification |-> "none", callable |-> callable,
                            required_sensors |-> required_sensors],
                to |-> None,
                error |-> discover(callable, required_sensors)]
    /\ UNCHANGED <<sensor_vars, outside_vars, rf_mission_vars>>
    /\ UNCHANGED <<id, uses_takeoff, next_index, waypoints_complete, commands,
                   dump, custom_packets, arm_pc, armed, threads>>

NextDiscover ==
    \E callable \in BOOLEAN, required_sensors \in RequiredSensors :
        discover_call(callable, required_sensors)

SpecDiscover == Init /\ [][NextDiscover]_vars

----------------------------------------------------------------------------
(* The two RSSI packets, created callback by callback *)

\* What the location callback returns: <<<<latitude, longitude>>, index>>.
LocationResults == ((0..1) \X (0..1)) \X (0..1)

\* What the validity callback returns: <<valid, valid_pair>>.
ValidResults == BOOLEAN \X BOOLEAN

\* The rssi_broadcast packets that the other vehicles send.
RSSIBroadcastPackets ==
    [specification : {"rssi_broadcast"}, latitude : 0..1, longitude : 0..1,
     valid : BOOLEAN, valid_pair : BOOLEAN, waypoint_index : 0..1,
     sensor_id : 1..NumberOfSensors, timestamp : {0}]

\* RSSI_Validity_Request.__init__
RSSI_Validity_Request(specification, other_id, other_valid, other_valid_pair, other_index) ==
    [is_broadcast |-> specification = "rssi_broadcast",
     other_valid |-> other_valid,
     other_id |-> other_id,
     other_index |-> other_index,
     other_valid_pair |-> other_valid_pair]

\* The request with this sensor in the place of the peer.
rssi_broadcast_request_of_self(own_id, to_id) ==
    RSSI_Validity_Request("rssi_broadcast", own_id, None, None, None)

\* The request that _create_rssi_broadcast_packet(to_id) makes.
rssi_broadcast_request(own_id, to_id) ==
    RSSI_Validity_Request("rssi_broadcast", to_id, None, None, None)

\* The request that _create_rssi_ground_station_packet makes.
rssi_ground_station_request(rssi_broadcast_packet) ==
    RSSI_Validity_Request("rssi_ground_station",
                          rssi_broadcast_packet.sensor_id,
                          rssi_broadcast_packet.valid,
                          rssi_broadcast_packet.valid_pair,
                          rssi_broadcast_packet.waypoint_index)

\* The packet of _create_rssi_broadcast_packet from what the callbacks
\* returned.
rssi_broadcast_packet(own_id, location_result, valid_result, time) ==
    [specification |-> "rssi_broadcast",
     latitude |-> location_result[1][1],
     longitude |-> location_result[1][2],
     valid |-> valid_result[1],
     valid_pair |-> valid_result[2],
     waypoint_index |-> location_result[2],
     sensor_id |-> own_id,
     timestamp |-> time]

\* The packet with the second answer of the validity callback as to_valid.
rssi_ground_station_packet_of_pair(own_id, packet, location_result, valid_result) ==
    [specification |-> "rssi_ground_station",
     sensor_id |-> own_id,
     from_latitude |-> packet.latitude,
     from_longitude |-> packet.longitude,
     from_valid |-> packet.valid,
     to_latitude |-> location_result[1][1],
     to_longitude |-> location_result[1][2],
     to_valid |-> valid_result[2]]

\* The packet of _create_rssi_ground_station_packet from the broadcast and
\* what the callbacks returned.
rssi_ground_station_packet(own_id, packet, location_result, valid_result) ==
    [specification |-> "rssi_ground_station",
     sensor_id |-> own_id,
     from_latitude |-> packet.latitude,
     from_longitude |-> packet.longitude,
     from_valid |-> packet.valid,
     to_latitude |-> location_result[1][1],
     to_longitude |-> location_result[1][2],
     to_valid |-> valid_result[1]]

Creating ==
    call.op \in {"_create_rssi_broadcast_packet, callbacks",
                 "_create_rssi_ground_station_packet, callbacks"}

CreatingAt(pc) == Creating /\ call.pc = pc

PacketFrame ==
    /\ UNCHANGED <<sensor_vars, outside_vars, rf_mission_vars>>
    /\ UNCHANGED <<id, uses_takeoff, next_index, waypoints_complete, commands,
                   dump, custom_packets, arm_pc, armed, threads>>

\* _create_rssi_broadcast_packet(to_id) is called.
create_rssi_broadcast_packet_call(to_id) ==
    /\ ~Creating \/ CreatingAt("return")
    /\ call' = [op |-> "_create_rssi_broadcast_packet, callbacks",
                packet |-> NoPacket, to |-> to_id, error |-> "none",
                pc |-> "location", rssi_broadcast_packet |-> NoPacket,
                callbacks |-> <<>>]
    /\ PacketFrame

\* _create_rssi_ground_station_packet(rssi_broadcast_packet) is called.
create_rssi_ground_station_packet_call(packet) ==
    /\ ~Creating \/ CreatingAt("return")
    /\ call' = [op |-> "_create_rssi_ground_station_packet, callbacks",
                packet |-> NoPacket, to |-> None, error |-> "none",
                pc |-> "location", rssi_broadcast_packet |-> packet,
                callbacks |-> <<>>]
    /\ PacketFrame

\* self._location_callback() returns.
location_callback(result) ==
    /\ CreatingAt("location")
    /\ call' = [call EXCEPT
           !.pc = "valid",
           !.callbacks = Append(@, [callback |-> "location",
                                    result |-> result])]
    /\ PacketFrame

\* The request is made, self._valid_callback(request) returns and the packet
\* is filled in.
valid_callback(result) ==
    /\ CreatingAt("valid")
    /\ LET broadcast ==
               call.op = "_create_rssi_broadcast_packet, callbacks"
           request ==
               IF broadcast THEN rssi_broadcast_request(id, call.to)
               ELSE rssi_ground_station_request(call.rssi_broadcast_packet)
           location_result == call.callbacks[1].result
       IN  call' = [call EXCEPT
               !.pc = "return",
               !.callbacks = Append(@, [callback |-> "valid",
                                        request |-> request,
                                        result |-> result]),
               !.packet =
                   IF broadcast
                   THEN rssi_broadcast_packet(id, location_result, result,
                                              now)
                   ELSE rssi_ground_station_packet(
                            id, call.rssi_broadcast_packet, location_result,
                            result)]
    /\ PacketFrame

NextPacket ==
    \/ \E to_id \in 1..NumberOfSensors :
           create_rssi_broadcast_packet_call(to_id)
    \/ \E packet \in RSSIBroadcastPackets :
           packet.sensor_id # id /\ create_rssi_ground_station_packet_call(packet)
    \/ \E result \in LocationResults : location_callback(result)
    \/ \E result \in ValidResults : valid_callback(result)

InitPacket == Init /\ ~uses_takeoff /\ dump = NoDump

SpecPacket == InitPacket /\ [][NextPacket]_vars

----------------------------------------------------------------------------
(* The slots of the scheduler that _loop_body asks with in_slot. Time is    *)
(* counted in ticks of the clock; all nodes share frame_start.              *)

\* in_slot that deals the slots to the vehicles only.
in_slot_of_vehicles(own_id, time, frame, duration) ==
    ((time - frame) \div duration) % NumberOfSensors = own_id

\* Whether `time` lies in the slot of own_id: the slots of a frame go to the
\* ids 0..N in turn.
in_slot(own_id, time, frame, duration) ==
    ((time - frame) \div duration) % (NumberOfSensors + 1) = own_id

\* The clock advances.
tick ==
    /\ now < MaxTime
    /\ now' = now + 1
    /\ call' = Called("tick")
    /\ UNCHANGED <<frame_start, slot_duration, api_exit, packet_callbacks,
                   custom_packets, mission_vars,
                   sensor_vars, rf_mission_vars>>

\* `self._id > 0 and self._scheduler.in_slot` of _loop_body.
read_in_slot ==
    /\ call' = Called(IF id > 0 /\ in_slot(id, now, frame_start, slot_duration)
                      THEN "in_slot" ELSE "not in_slot")
    /\ UNCHANGED <<custom_packets, mission_vars, sensor_vars, outside_vars,
                   rf_mission_vars>>

NextSlot ==
    \/ tick
    \/ read_in_slot

InitSlot ==
    /\ InitUnscheduled
    /\ ~uses_takeoff
    /\ dump = NoDump
    /\ now = 0
    /\ frame_start \in 0..MaxFrameStart
    /\ slot_duration \in 1..MaxSlotDuration

SpecSlot == InitSlot /\ [][NextSlot]_vars

----------------------------------------------------------------------------
(* Mission_RF_Sensor: the handlers that keep the accepted packets in        *)
(* _waypoints and dump them when the mission is complete, and _load_dump,   *)
(* which a restarted vehicle runs. Their behaviour is the one that          *)
(* src/tests/mission_rf_sensor.py asserts.                                  *)

\* A dump file whose text is no JSON.
InvalidDump == [kind |-> "invalid", waypoints |-> <<>>]

\* Mission_RF_Sensor._add_waypoint: an accepted packet is kept with all its
\* fields.
rf_add_waypoint(packet) ==
    /\ call' = Received(packet)
    /\ IF ~for_us(id, packet)
       THEN UNCHANGED <<waypoints, next_index, custom_packets>>
       ELSE IF ~index_accepted(packet.index, next_index)
       THEN /\ custom_packets' = send_ack(custom_packets, id, next_index)
            /\ UNCHANGED <<waypoints, next_index>>
       ELSE /\ waypoints' = Append(waypoints, packet)
            /\ next_index' = next_after_add(next_index)
            /\ custom_packets' =
                   send_ack(custom_packets, id, next_after_add(next_index))
    /\ UNCHANGED <<id, uses_takeoff, waypoints_complete, commands, dump,
                   arm_pc, armed, threads, current_waypoint, valid_waypoints,
                   sensor_vars, outside_vars>>

\* Mission_RF_Sensor._complete_waypoints: the acknowledgement carries an
\* index of its own, one past the last waypoint, and the waypoints are
\* dumped.
rf_complete_waypoints(packet) ==
    /\ call' = Received(packet)
    /\ IF ~for_us(id, packet)
       THEN UNCHANGED <<waypoints_complete, next_index, custom_packets, dump>>
       ELSE /\ waypoints_complete' = TRUE
            /\ next_index' = next_index + 1
            /\ custom_packets' = send_ack(custom_packets, id, next_index + 1)
            /\ dump' = Dump(waypoints)
    /\ UNCHANGED <<id, uses_takeoff, commands, arm_pc, armed, threads,
                   sensor_vars, outside_vars, rf_mission_vars>>

\* Mission_RF_Sensor._clear_waypoints: the mission is emptied and the dump
\* removed.
rf_clear_waypoints(packet) ==
    /\ call' = Received(packet)
    /\ IF ~for_us(id, packet)
       THEN UNCHANGED <<waypoints, waypoints_complete, next_index,
                        custom_packets, dump>>
       ELSE /\ waypoints' = <<>>
            /\ waypoints_complete' = FALSE
            /\ next_index' = 0
            /\ custom_packets' = send_ack(custom_packets, id, 0)
            /\ dump' = NoDump
    /\ UNCHANGED <<id, uses_takeoff, commands, arm_pc, armed, threads,
                   current_waypoint, valid_waypoints, sensor_vars,
                   outside_vars>>

\* How reading the dump file ends.
load_error(file) ==
    CASE file.kind = "absent" -> "IOError"
      [] file.kind = "invalid" -> "ValueError"
      [] OTHER -> "none"

\* _load_dump that restores the waypoints of a dump and not that the
\* mission is complete.
load_dump_incomplete ==
    /\ call' = [Called("load_dump") EXCEPT !.error = load_error(dump)]
    /\ IF load_error(dump) = "none"
       THEN /\ waypoints' = dump.waypoints
            /\ next_index' = Len(dump.waypoints)
            /\ waypoints_complete' = FALSE
       ELSE /\ waypoints' = <<>>
            /\ next_index' = 0
            /\ waypoints_complete' = FALSE
    /\ UNCHANGED <<id, uses_takeoff, commands, dump, custom_packets, arm_pc,
                   armed, threads, current_waypoint, valid_waypoints,
                   sensor_vars, outside_vars>>

\* _load_dump that leaves the mission as it is when the dump cannot be read.
load_dump_keeping_state ==
    /\ call' = [Called("load_dump") EXCEPT !.error = load_error(dump)]
    /\ IF load_error(dump) = "none"
       THEN /\ waypoints' = dump.waypoints
            /\ next_index' = Len(dump.waypoints)
            /\ waypoints_complete' = TRUE
       ELSE UNCHANGED <<waypoints, next_index, waypoints_complete>>
    /\ UNCHANGED <<id, uses_takeoff, commands, dump, custom_packets, arm_pc,
                   armed, threads, current_waypoint, valid_waypoints,
                   sensor_vars, outside_vars>>

\* Mission_RF_Sensor._load_dump: the waypoints of the dump are restored and
\* counted; a dump that is missing or does not parse is logged and leaves the
\* empty mission.
load_dump ==
    /\ call' = [Called("load_dump") EXCEPT !.error = load_error(dump)]
    /\ IF load_error(dump) = "none"
       THEN /\ waypoints' = dump.waypoints
            /\ next_index' = Len(dump.waypoints)
            /\ waypoints_complete' = TRUE
       ELSE /\ waypoints' = <<>>
            /\ next_index' = 0
            /\ waypoints_complete' = FALSE
    /\ UNCHANGED <<id, uses_takeoff, commands, dump, custom_packets, arm_pc,
                   armed, threads, current_waypoint, valid_waypoints,
                   sensor_vars, outside_vars>>

\* The dump file is damaged or removed behind the back of the mission.
damage_dump(file) ==
    /\ dump # file
    /\ dump' = file
    /\ call' = Called("damage_dump")
    /\ UNCHANGED <<id, uses_takeoff, next_index, waypoints_complete, commands,
                   custom_packets, arm_pc, armed, threads, sensor_vars,
                   outside_vars, rf_mission_vars>>

\* The ground station ends a mission once: waypoint_done arrives while the
\* mission is incomplete.
\* reset that removes the dump along with the state.
reset_removing_dump ==
    /\ call' = Called("reset")
    /\ waypoints' = <<>>
    /\ next_index' = 0
    /\ waypoints_complete' = FALSE
    /\ dump' = NoDump
    /\ UNCHANGED <<id, uses_takeoff, commands, custom_packets, arm_pc, armed,
                   threads, current_waypoint, valid_waypoints, sensor_vars,
                   outside_vars>>

\* Mission_RF_Sensor.reset: the state variables of the mission are cleared,
\* the dump file is neither written nor removed.
reset ==
    /\ call' = Called("reset")
    /\ waypoints' = <<>>
    /\ next_index' = 0
    /\ waypoints_complete' = FALSE
    /\ UNCHANGED <<id, uses_takeoff, commands, dump, custom_packets, arm_pc,
                   armed, threads, current_waypoint, valid_waypoints,
                   sensor_vars, outside_vars>>

NextDump ==
    \/ \E packet \in WaypointClearPackets :
           QueueHasRoom /\ rf_clear_waypoints(packet)
    \/ \E packet \in WaypointAddPackets :
           /\ QueueHasRoom
           /\ Len(waypoints) < MaxWaypoints
           /\ rf_add_waypoint(packet)
    \/ \E packet \in WaypointDonePackets :
           /\ QueueHasRoom
           /\ ~waypoints_complete
           /\ rf_complete_waypoints(packet)
    \/ load_dump
    \/ reset
    \/ \E file \in {NoDump, InvalidDump} : damage_dump(file)
    \/ send_custom_packets

InitDump == Init /\ ~uses_takeoff

SpecDump == InitDump /\ [][NextDump]_vars

----------------------------------------------------------------------------
(* The vehicle on a complete mission. Every waypoint of the mission is      *)
(* followed in the list of the vehicle by an entry at which it waits:       *)
(* entry 2k-1 is the location of waypoint k, entry 2k its wait entry.       *)
(* current_waypoint is the entry the vehicle is at.                         *)

\* The waypoint packet that entry `entry` of the vehicle stems from.
WaypointOf(entry) == waypoints[(entry + 1) \div 2]

\* vehicle.is_wait
is_wait(entry) == entry > 0 /\ entry % 2 = 0

\* The vehicles a wait entry waits for: the one named by wait_id, every
\* other vehicle when wait_id is 0.
required_sensors(entry) ==
    LET wait_id == WaypointOf(entry).wait_id IN
    (IF wait_id = 0 THEN 1..NumberOfSensors ELSE {wait_id}) \ {id}

\* Whether every required vehicle was reported valid at this entry.
is_measurement_valid(entry) ==
    \A other_id \in required_sensors(entry) :
        valid_waypoints[other_id] = entry

\* The vehicle reaches the location it was heading for and goes on to the
\* wait entry behind it.
reach_waypoint ==
    /\ waypoints_complete
    /\ ~is_wait(current_waypoint)
    /\ current_waypoint < 2 * Len(waypoints)
    /\ current_waypoint' = current_waypoint + 1
    /\ call' = Called("reach_waypoint")
    /\ UNCHANGED <<waypoints, valid_waypoints, custom_packets, mission_vars,
                   sensor_vars, outside_vars>>

\* Environment.location_valid(other_valid=True, other_id, other_index): a
\* measurement with vehicle other_id at its waypoint other_index is valid.
location_valid(other_id, other_index) ==
    /\ valid_waypoints' = [valid_waypoints EXCEPT ![other_id] = other_index]
    /\ call' = Called("location_valid")
    /\ UNCHANGED <<waypoints, current_waypoint, custom_packets, mission_vars,
                   sensor_vars, outside_vars>>

\* check_waypoint that lets the vehicle leave every wait entry.
check_waypoint_ungated ==
    /\ waypoints_complete
    /\ IF is_wait(current_waypoint)
       THEN /\ current_waypoint' = current_waypoint + 1
            /\ valid_waypoints' = [i \in Ids |-> None]
       ELSE UNCHANGED <<current_waypoint, valid_waypoints>>
    /\ call' = Called("check_waypoint")
    /\ UNCHANGED <<waypoints, custom_packets, mission_vars, sensor_vars,
                   outside_vars>>

\* Mission_RF_Sensor.check_waypoint: at a wait entry the vehicle goes on to
\* the next entry once the required vehicles are reported valid; the
\* reports are used up.
check_waypoint ==
    /\ waypoints_complete
    /\ IF is_wait(current_waypoint) /\ is_measurement_valid(current_waypoint)
       THEN /\ current_waypoint' = current_waypoint + 1
            /\ valid_waypoints' = [i \in Ids |-> None]
       ELSE UNCHANGED <<current_waypoint, valid_waypoints>>
    /\ call' = Called("check_waypoint")
    /\ UNCHANGED <<waypoints, custom_packets, mission_vars, sensor_vars,
                   outside_vars>>

NextWait ==
    \/ reach_waypoint
    \/ \E other_id \in (1..NumberOfSensors) \ {id},
          other_index \in 1..(2 * MaxWaypoints) :
           location_valid(other_id, other_index)
    \/ check_waypoint

\* The mission of a vehicle that accepted the first k waypoints of the
\* ground station before waypoint_done.
CompleteMission(own_id, k) ==
    [i \in 1..k |->
        [specification |-> "waypoint_add", to_id |-> own_id, index |-> i - 1,
         latitude |-> SenderEntry(i - 1).latitude,
         longitude |-> SenderEntry(i - 1).longitude,
         altitude |-> SenderEntry(i - 1).altitude,
         wait_id |-> SenderEntry(i - 1).wait_id,
         wait_count |-> SenderEntry(i - 1).wait_count,
         wait_waypoint |-> SenderEntry(i - 1).wait_waypoint]]

InitWait ==
    /\ id \in 1..NumberOfSensors
    /\ \E k \in 1..MaxWaypoints :
           /\ waypoints = CompleteMission(id, k)
           /\ next_index = k + 1
           /\ dump = Dump(waypoints)
    /\ waypoints_complete = TRUE
    /\ uses_takeoff = FALSE
    /\ commands = <<>>
    /\ custom_packets = <<>>
    /\ arm_pc = "idle"
    /\ armed = FALSE
    /\ call = Called("start")
    /\ threads = IdleThreads
    /\ activated = FALSE
    /\ started = FALSE
    /\ connection = None
    /\ packets = <<>>
    /\ timestamp = 0
    /\ loops = NoLoops
    /\ setups = 0
    /\ closes = 0
    /\ interrupts = 0
    /\ now = 0
    /\ frame_start = 0
    /\ slot_duration = 1
    /\ current_waypoint = 0
    /\ valid_waypoints = [i \in Ids |-> None]
    /\ api_exit = FALSE
    /\ packet_callbacks = setup_callbacks(NoCallbacks)

SpecWait == InitWait /\ [][NextWait]_vars

----------------------------------------------------------------------------
(* Properties of the handlers, checked under Spec *)

\* The step delivered a packet of `specification` that is meant for us.
Handled(specification) ==
    /\ call'.op = "receive"
    /\ call'.packet.specification = specification
    /\ call'.packet.to_id = id

\* The state is the one a delivered packet of `specification` left.
After(specification) ==
    /\ call.op = "receive"
    /\ call.packet.specification = specification

\* The queue item of an acknowledgement carrying `index`.
AckItem(index) ==
    [packet |-> [specification |-> "waypoint_ack", next_index |-> index,
                 sensor_id |-> id],
     to |-> 0]

\* The step enqueued one acknowledgement, carrying `index`, and nothing else.
AckEnqueued(index) == custom_packets' = Append(custom_packets, AckItem(index))

LastAck == custom_packets[Len(custom_packets)]

\* The waypoint the vehicle holds for entry i of the sender's mission.
SenderWaypoint(i) ==
    WaypointCommand(SenderEntry(i).latitude, SenderEntry(i).longitude,
                    SenderEntry(i).altitude,
                    IF SenderEntry(i).wait_id > 0
                    THEN <<SenderEntry(i).wait_id>> ELSE <<>>)

C2_WrongIndexIgnored ==
    [][(Handled("waypoint_add") /\ call'.packet.index # next_index)
        => /\ UNCHANGED <<commands, next_index>>
           /\ AckEnqueued(next_index)]_vars

\* A packet past a gap (index 2 when 1 is expected) was answered.
C2_Witness ==
    /\ After("waypoint_add")
    /\ call.packet.to_id = id
    /\ call.packet.index = 2
    /\ next_index = 1
    /\ Len(Waypoints(commands)) = 1
    /\ custom_packets # <<>>
    /\ LastAck = AckItem(1)

\* C3: whatever the link duplicates, reorders or drops, the waypoints of the
\* vehicle are the sender's entries 0 .. next_index - 1, in index order.
C3_AcceptedIsPrefix ==
    /\ Len(Waypoints(commands)) = next_index
    /\ \A i \in 1..Len(Waypoints(commands)) :
           Waypoints(commands)[i] = SenderWaypoint(i - 1)

\* The whole mission is held and a copy of its first packet arrived again.
C3_Witness ==
    /\ After("waypoint_add")
    /\ call.packet.to_id = id
    /\ call.packet.index = 0
    /\ next_index = MaxWaypoints
    /\ Len(Waypoints(commands)) = MaxWaypoints

C5_OtherNodeIgnored ==
    [][(call'.op = "receive" /\ call'.packet.to_id # id)
        => UNCHANGED <<commands, next_index, waypoints_complete, dump,
                       custom_packets>>]_vars

\* A waypoint_clear for another node arrived while we hold a waypoint.
C5_Witness ==
    /\ After("waypoint_clear")
    /\ call.packet.to_id # id
    /\ next_index = 1
    /\ Len(Waypoints(commands)) = 1
    /\ ~waypoints_complete

\* C6: a waypoint_clear meant for us leaves next_index 0 and no waypoint,
\* removes the dump, and enqueues an acknowledgement carrying 0.
C6_ClearRemovesDump ==
    [][Handled("waypoint_clear")
        => /\ next_index' = 0
           /\ Waypoints(commands') = <<>>
           /\ dump' = NoDump
           /\ AckEnqueued(0)]_vars

\* C7: a waypoint_done meant for us, after k waypoints were accepted, sets
\* waypoints_complete, writes a dump of k entries and enqueues an
\* acknowledgement carrying k.
C7_DoneDumpsAndAcks ==
    [][Handled("waypoint_done")
        => /\ waypoints_complete'
           /\ dump'.kind = "valid"
           /\ Len(dump'.waypoints) = next_index
           /\ AckEnqueued(next_index)]_vars

\* C8: the vehicle is armed only from a state in which waypoints_complete is
\* true, and waypoints_complete becomes true only by a waypoint_done meant
\* for us.
C8_ArmedOnlyWhenComplete ==
    [][/\ (armed' /\ ~armed) => waypoints_complete
       /\ (arm_pc' = "arming" /\ arm_pc # "arming") => waypoints_complete
       /\ (waypoints_complete' /\ ~waypoints_complete)
            => Handled("waypoint_done")]_vars

\* arm_and_takeoff went on to arm the vehicle.
C8_Witness == armed /\ arm_pc = "done" /\ waypoints_complete

----------------------------------------------------------------------------
(* Properties of RF_Sensor.enqueue, checked under SpecEnqueue *)

\* C10: enqueue of a packet of a private specification (rssi_broadcast or
\* rssi_ground_station) ends with an error, whatever `to` is, and the
\* custom-packet queue is as it was.
C10_PrivateRejected ==
    [][(/\ call'.op = "enqueue"
        /\ call'.packet.specification
             \in {"rssi_broadcast", "rssi_ground_station"})
        => /\ call'.error # "none"
           /\ UNCHANGED custom_packets]_vars

\* A private packet given without a destination was rejected while the queue
\* held a packet.
C10_Witness ==
    /\ call.op = "enqueue"
    /\ call.packet.specification = "rssi_ground_station"
    /\ call.to = None
    /\ call.error = "ValueError"
    /\ Len(custom_packets) = 1

----------------------------------------------------------------------------
(* Properties of concurrent deliveries, checked under SpecConc *)

\* C9: once the handlers of packets delivered at once have returned, one
\* waypoint was appended per accepted index and none twice: the waypoints are
\* the sender's entries 0 .. next_index - 1, each once, in index order.
C9_ConcurrentAddsSerialized ==
    (\A t \in Threads : At(t, "idle"))
        => /\ Len(Waypoints(commands)) = next_index
           /\ \A i \in 1..Len(Waypoints(commands)) :
                  Waypoints(commands)[i] = SenderWaypoint(i - 1)

\* The entries the step appended to the custom-packet queue.
Appended ==
    SubSeq(custom_packets', Len(custom_packets) + 1, Len(custom_packets'))

\* C11: enqueue(p) without a destination appends one copy of p for every
\* vehicle id in 1..N but our own, in ascending order of the ids, and none
\* for id 0 or for ourselves; enqueue(p, to=t) appends one entry, for t.
C11_EnqueueFanOut ==
    [][(/\ call'.op = "enqueue"
        /\ call'.error = "none")
        => /\ SubSeq(custom_packets', 1, Len(custom_packets)) = custom_packets
           /\ \A j \in 1..Len(Appended) : Appended[j].packet = call'.packet
           /\ IF call'.to = None
              THEN /\ {Appended[j].to : j \in 1..Len(Appended)}
                        = (1..NumberOfSensors) \ {id}
                   /\ \A j, k \in 1..Len(Appended) :
                          j < k => Appended[j].to < Appended[k].to
              ELSE /\ Len(Appended) = 1
                   /\ Appended[1].to = call'.to]_vars

\* The ground station enqueued a packet for every vehicle.
C11_Witness ==
    /\ call.op = "enqueue"
    /\ call.error = "none"
    /\ call.to = None
    /\ id = 0
    /\ Len(custom_packets) = NumberOfSensors
    /\ \A j \in 1..NumberOfSensors :
           custom_packets[j] = [packet |-> call.packet, to |-> j]

----------------------------------------------------------------------------
(* Properties of the sensor runtime, checked under SpecLoop *)

\* C17: whatever the sequence of activate and deactivate, at most one thread
\* is inside the processing loop at any time. The threads counted are the
\* ones inside _loop_body, which passed `while self._activated` and are not
\* about to end.
C17_AtMostOneLoop ==
    Cardinality({t \in Running : ~LoopAt(t, "while")}) <= 1

\* The step handed a custom packet to the open connection.
CustomHanded ==
    /\ call'.op = "_send_tx_frame"
    /\ call'.error = "none"
    /\ ~is_private(call'.packet)

\* C12: however start and stop interleave with the loop, a custom packet is
\* handed to the connection only in a state where _started is false.
C12_CustomOnlyWhileStopped == [][CustomHanded => ~started]_vars

\* The threads that activate spawned so far.
Spawned == {t \in LoopIds : ~LoopAt(t, "unborn")}

\* C14: activate makes the sensor activated; on an activated sensor it opens
\* no connection, runs no _setup and spawns no loop, and on a deactivated
\* one it runs _setup only without a connection and spawns one loop.
C14_ActivateIdempotent ==
    [][call'.op = "activate"
        => /\ activated'
           /\ IF activated
              THEN UNCHANGED <<connection, setups, loops>>
              ELSE /\ connection' # None
                   /\ setups' = IF connection = None THEN setups + 1
                                ELSE setups
                   /\ \E t \in LoopIds \ Spawned :
                          /\ loops'[t].pc = "while"
                          /\ \A u \in LoopIds \ {t} : loops'[u] = loops[u]]_vars

\* activate was called again after the loop it spawned had begun.
C14_Witness ==
    /\ call.op = "activate"
    /\ activated
    /\ setups = 1
    /\ LoopAt(1, "if")
    /\ Spawned = {1}

\* C15: deactivate leaves the sensor deactivated and without a connection;
\* an open connection is closed once, and on a deactivated sensor the call
\* changes nothing.
C15_DeactivateIdempotent ==
    [][call'.op = "deactivate"
        => /\ ~activated'
           /\ connection' = None
           /\ closes' = IF connection # None THEN closes + 1 ELSE closes
           /\ ~activated => UNCHANGED sensor_vars]_vars

\* deactivate was called again after the loop had ended.
C15_Witness ==
    /\ call.op = "deactivate"
    /\ setups = 1
    /\ closes = 1
    /\ LoopAt(1, "ended")
    /\ Spawned = {1}

\* C16: a transmission without a connection ends the loop by
\* DisabledException and without interrupt, any other exception in the loop
\* body ends it after one interrupt, and a loop that ended does nothing more.
C16_LoopEndsOnException ==
    [][/\ \A t \in LoopIds :
            /\ loops[t].pc \in {"ended", "disabled", "interrupted"}
                   => loops'[t] = loops[t]
            /\ (loops'[t] # loops[t] /\ call'.error = "DisabledException")
                   => /\ loops'[t].pc = "disabled"
                      /\ interrupts' = interrupts
            /\ (/\ loops'[t] # loops[t]
                /\ call'.error \notin {"none", "DisabledException"})
                   => /\ loops'[t].pc = "interrupted"
                      /\ interrupts' = interrupts + 1
       /\ (call'.op = "_send_tx_frame" /\ connection = None)
              => call'.error = "DisabledException"
       /\ interrupts' # interrupts
              => call'.error \notin {"none", "DisabledException"}]_vars

\* One loop ended by DisabledException, another by a raising callback.
C16_Witness ==
    /\ \E t \in LoopIds : LoopAt(t, "disabled")
    /\ \E t \in LoopIds : LoopAt(t, "interrupted")
    /\ interrupts = 1

----------------------------------------------------------------------------
(* Properties of the slots, checked under SpecSlot *)

\* The ids whose slot holds the current time.
InSlot(time) ==
    {i \in Ids : in_slot(i, time, frame_start, slot_duration)}

\* C13: with a common frame_start, at every instant exactly one id of 0..N
\* is in its slot, namely floor((now - frame_start) / d) mod (N+1), and the
\* id in slot is the same one (N+1)*d later.
C13_OneIdInSlot ==
    /\ Cardinality(InSlot(now)) = 1
    /\ InSlot(now) = InSlot(now + (NumberOfSensors + 1) * slot_duration)
    /\ \A k \in 0..NumberOfSensors, r \in 0..(slot_duration - 1) :
           now = frame_start + k * slot_duration + r => InSlot(now) = {k}

\* A vehicle found itself in its slot in the second frame.
C13_Witness ==
    /\ call.op = "in_slot"
    /\ id > 0
    /\ now >= frame_start + (NumberOfSensors + 1) * slot_duration
    /\ slot_duration > 1

----------------------------------------------------------------------------
(* Properties of the dump, checked under SpecDump *)

\* The vehicle restarts right after a waypoint_done packet was handled.
LoadsAfterDone ==
    /\ After("waypoint_done")
    /\ call.packet.to_id = id
    /\ call'.op = "load_dump"

C19_BadDumpResets ==
    [][(call'.op = "load_dump" /\ dump.kind # "valid")
        => /\ call'.error \in {"IOError", "ValueError"}
           /\ waypoints' = <<>>
           /\ next_index' = 0
           /\ ~waypoints_complete']_vars

\* A dump that does not parse was loaded over a complete mission: nothing
\* was acknowledged since waypoint_done.
C19_Witness ==
    /\ call.op = "load_dump"
    /\ call.error = "ValueError"
    /\ next_index = 0
    /\ waypoints = <<>>
    /\ ~waypoints_complete
    /\ custom_packets = <<AckItem(MaxWaypoints + 1)>>

----------------------------------------------------------------------------
(* Properties of the rendezvous, checked under SpecWait *)

\* C20: at a wait entry that requires other vehicles, the vehicle stays
\* unless check_waypoint runs after each of them was reported valid at this
\* entry, and then it goes on by one entry.
C20_WaitsForValidPeers ==
    [][(/\ is_wait(current_waypoint)
        /\ required_sensors(current_waypoint) # {})
        => IF /\ call'.op = "check_waypoint"
              /\ \A other_id \in required_sensors(current_waypoint) :
                     valid_waypoints[other_id] = current_waypoint
           THEN current_waypoint' = current_waypoint + 1
           ELSE current_waypoint' = current_waypoint]_vars

\* check_waypoint let the vehicle leave the wait entry of its first
\* waypoint, at which it waits for every other vehicle.
C20_Witness ==
    /\ call.op = "check_waypoint"
    /\ current_waypoint = 3
    /\ required_sensors(2) # {}
    /\ \A i \in Ids : valid_waypoints[i] = None

\* C21: a direct call of add_commands always ends with an error and adds no
\* command, and get_points always returns the empty list.
C21_AddCommandsFails ==
    [][/\ call'.op = "add_commands"
            => (call'.error # "none" /\ commands' = commands)
       /\ call'.op = "get_points" => get_points = <<>>]_vars

\* C22: once the script is told to stop while arm_and_takeoff waits for the
\* mission, the wait ends, also if waypoints_complete stays false.
C22_WaitCancellable ==
    (api_exit /\ arm_pc = "waiting")
        ~> (arm_pc # "waiting" \/ waypoints_complete)

\* The step handed a frame of the scheduled branch to the connection: a
\* broadcast, or the relay of a buffered measurement.
ScheduledFrame ==
    /\ call'.op = "_send_tx_frame"
    /\ call'.packet.specification \in {"rssi_broadcast", "rssi_ground_station"}

\* A thread of _loop is inside the scheduled branch.
InScheduledBranch(t) == loops[t].pc \in {"for", "relay", "relay_tx", "update"}

\* C23: a node whose id is not positive hands no rssi_broadcast and no
\* measurement to the connection and never enters the scheduled branch,
\* whatever started is and whatever the scheduler answers.
C23_GroundStationSilent ==
    [][id <= 0 => /\ ~ScheduledFrame
                  /\ \A t \in LoopIds : ~InScheduledBranch(t)'
                  /\ timestamp' # timestamp => call'.op \in {"start", "stop"}
      ]_vars

\* The loop of a started ground station made the test of _loop_body while the
\* scheduler answered that it is in its slot, with a measurement buffered,
\* and went back to the head of the loop.
C23_Witness ==
    /\ id = 0
    /\ started
    /\ connection # None
    /\ packets # <<>>
    /\ call = Branched(TRUE)
    /\ \E t \in LoopIds : LoopAt(t, "while")

\* C24: reset, called in any state of the mission, leaves no waypoint,
\* next_index 0 and waypoints_complete false, and leaves the dump as it is.
C24_ResetKeepsDump ==
    [][call'.op = "reset"
        => /\ waypoints' = <<>>
           /\ next_index' = 0
           /\ ~waypoints_complete'
           /\ dump' = dump]_vars

\* reset was called on a mission whose waypoints had been dumped.
C24_Witness ==
    /\ call.op = "reset"
    /\ dump.kind = "valid"
    /\ dump.waypoints # <<>>
    /\ waypoints = <<>>
    /\ next_index = 0
    /\ ~waypoints_complete

\* C25: after a waypoint_clear meant for us waypoints_complete is false,
\* whatever it was before, so that arm_and_takeoff waits again.
C25_ClearResetsComplete ==
    [][Handled("waypoint_clear") => ~waypoints_complete']_vars

\* C26: a waypoint_done meant for us advances next_index by one, to one past
\* the number of accepted waypoints, and enqueues an acknowledgement that
\* carries the new next_index.
C26_DoneAdvancesIndex ==
    [][Handled("waypoint_done")
        => /\ next_index' = next_index + 1
           /\ AckEnqueued(next_index + 1)]_vars

\* C27: every waypoint_add, accepted or rejected, and every waypoint_clear
\* meant for us enqueues exactly one acknowledgement, to id 0, whose
\* sensor_id is our id and whose next_index is the one the handler left; no
\* acknowledgement in the queue has another destination.
C27_OneAckToGroundStation ==
    [][/\ (Handled("waypoint_add") \/ Handled("waypoint_clear"))
            => AckEnqueued(next_index')
       /\ \A i \in 1..Len(custom_packets') :
              custom_packets'[i].packet.specification = "waypoint_ack"
                  => /\ custom_packets'[i].to = 0
                     /\ custom_packets'[i].packet.sensor_id = id]_vars

\* A vehicle acknowledged an accepted waypoint and then a rejected one.
C27_Witness ==
    /\ After("waypoint_add")
    /\ call.packet.to_id = id
    /\ id > 0
    /\ call.packet.index # next_index - 1
    /\ custom_packets = <<AckItem(1), AckItem(1)>>

\* Thread t of _loop goes from pc `from` to pc `to` in the step.
Moves(t, from, to) == loops[t].pc = from /\ loops'[t].pc = to

\* Thread t of _loop comes to pc `to` in the step.
Enters(t, to) == loops[t].pc # to /\ loops'[t].pc = to

\* The step is the end of thread t of _loop by an exception.
Ends(t) == loops'[t].pc \in {"disabled", "interrupted"}

\* What every tick of the loop keeps to: the scheduled branch is entered only
\* by a started vehicle whose scheduler answered that it is in its slot, and
\* the scheduler is updated only at the end of that branch, once.
TickFrame(t) ==
    /\ Enters(t, "for")
        => /\ loops[t].pc = "if"
           /\ started /\ id > 0
           /\ call' = Branched(TRUE)
    /\ (InScheduledBranch(t) /\ ~InScheduledBranch(t)')
        => (Moves(t, "update", "while") \/ Ends(t))

\* The writers of the timestamp: start, stop, and a loop at its update.
TimestampWriters ==
    timestamp' # timestamp
        => \/ call'.op \in {"start", "stop"}
           \/ \E t \in LoopIds : Moves(t, "update", "while")

\* C28 as stated: in a tick of a started vehicle in its slot the scheduler is
\* updated only after a broadcast to every other vehicle and after the relay
\* queue was emptied, once, and in no tick without started and in_slot.
C28_TickCompletes ==
    [][/\ TimestampWriters
       /\ \A t \in LoopIds :
              /\ TickFrame(t)
              /\ Enters(t, "update")
                  => (loops[t].pc = "relay" /\ packets = <<>>)]_vars

\* C28, amended: the broadcasts go to the other vehicles in ascending order
\* of id, the relays to id 0 follow the last broadcast, and both stop when
\* the scheduler answers that the slot is over; the scheduler is then updated
\* once, unless an exception ended the loop, and in no tick without started
\* and in_slot.
C28_TickWhileInSlot ==
    [][/\ TimestampWriters
       /\ \A t \in LoopIds : loops'[t] # loops[t] =>
              /\ TickFrame(t)
              /\ Enters(t, "update")
                  => \/ loops[t].pc = "relay" /\ packets = <<>>
                     \/ /\ loops[t].pc \in {"for", "relay"}
                        /\ call' = Called("_send, off slot")
              /\ Enters(t, "relay")
                  => \/ loops[t].pc = "relay_tx"
                     \/ /\ loops[t].pc = "for"
                        /\ loops[t].to_id = NumberOfSensors
              /\ (loops[t].pc = "for" /\ loops'[t].pc \in {"for", "relay"})
                  => /\ loops'[t].to_id = loops[t].to_id + 1
                     /\ loops[t].to_id # id
                         => call' = Frame(create_rssi_broadcast_packet(id),
                                          loops[t].to_id, "none")
              /\ Moves(t, "relay_tx", "relay")
                  => (call'.op = "_send_tx_frame" /\ call'.to = 0)]_vars

\* The slot of a vehicle ended while measurements were still buffered: its
\* loop left _send and is about to update the scheduler.
C28_Witness ==
    /\ id > 0
    /\ started
    /\ packets # <<>>
    /\ call = Called("_send, off slot")
    /\ \E t \in LoopIds : LoopAt(t, "update")

\* C29: start, called in any state, leaves started true, no buffered
\* measurement and the scheduler updated, and leaves the custom packets,
\* the activated flag and the connection as they are.
C29_StartFrame ==
    [][call'.op = "start"
        => /\ started'
           /\ packets' = <<>>
           /\ timestamp' = 1
           /\ UNCHANGED <<custom_packets, activated, connection>>]_vars

\* start was called on an activated sensor with a custom packet enqueued,
\* while its loop was relaying a measurement.
C29_Witness ==
    /\ call.op = "start"
    /\ started
    /\ packets = <<>>
    /\ timestamp = 1
    /\ activated
    /\ connection # None
    /\ custom_packets # <<>>
    /\ \E t \in LoopIds : LoopAt(t, "relay_tx")

\* C30: from the return of stop to the next start the loop neither updates
\* the scheduler nor hands a broadcast or a measurement to the connection:
\* the timestamp keeps the value 0 that stop gave it.
C30_StoppedStaysReset ==
    [][(~started /\ call'.op # "start")
        => (timestamp' = 0 /\ ~ScheduledFrame)]_vars

\* The scheduler answered thread t, in the step, that the slot is over.
SlotOver == call' = Called("_send, off slot")

\* C31: a broadcast is handed to the connection only in the round of the for
\* loop whose test of in_slot succeeded, a measurement only after it was taken
\* by a test of the relay loop that succeeded; a test that fails ends the
\* round: the thread goes to the update without another frame, and the
\* measurements that were not relayed stay in the queue.
C31_SendsOnlyInSlot ==
    [][\A t \in LoopIds : loops'[t] # loops[t] =>
           /\ ScheduledFrame
               => \/ loops[t].pc = "for" /\ ~SlotOver
                                          /\ call'.to = loops[t].to_id
                  \/ loops[t].pc = "relay_tx" /\ call'.packet = loops[t].item.packet
           /\ Enters(t, "relay_tx")
               => /\ loops[t].pc = "relay"
                  /\ ~SlotOver
                  /\ packets # <<>>
                  /\ loops'[t].item.packet = Head(packets)
                  /\ packets' = Tail(packets)
           /\ (SlotOver /\ loops[t].pc \in {"for", "relay"})
               => /\ loops'[t].pc = "update"
                  /\ packets' = packets
                  /\ ~ScheduledFrame
           /\ loops[t].pc = "update"
               => /\ loops'[t].pc = "while"
                  /\ packets' = packets
                  /\ ~ScheduledFrame]_vars

\* The slot of a vehicle ended in the round of broadcasts of its loop, with a
\* measurement buffered and a custom packet waiting.
C31_Witness ==
    /\ id = 1
    /\ started /\ activated
    /\ connection # None
    /\ packets # <<>>
    /\ custom_packets # <<>>
    /\ call = Called("_send, off slot")
    /\ \E t \in LoopIds : LoopAt(t, "update")

\* No thread is inside _loop, and none left it by an interrupt.
LoopsOver == \A t \in LoopIds : loops[t].pc \in {"unborn", "ended", "disabled"}

\* C32: once the sensor is deactivated, and unless it is activated again,
\* every thread of _loop ends, by the test of the loop or by
\* DisabledException, and none by an interrupt.
C32_LoopTerminates == ~activated ~> (activated \/ LoopsOver)

\* The step handed a custom packet to _send_tx_frame.
CustomFrame ==
    /\ call'.op = "_send_tx_frame"
    /\ call'.packet.specification = "waypoint_ack"

\* C33: whatever the interleaving of deactivate with the loop that drains the
\* custom packets, every packet taken from the queue is handed to an open
\* connection: none is taken and then dropped because the connection was
\* closed.
C33_NoCustomPacketLost ==
    [][CustomFrame => (connection # None /\ call'.error = "none")]_vars

\* A custom packet that enqueue accepted waits: in the queue, or in the hands
\* of a thread that took it.
CustomPending ==
    \/ custom_packets # <<>>
    \/ \E t \in LoopIds : loops[t].pc = "custom_tx"

\* A custom packet was handed to the open connection.
CustomHandedOver ==
    /\ call.op = "_send_tx_frame"
    /\ call.packet.specification = "waypoint_ack"
    /\ call.error = "none"

\* C34: if from some time on the sensor stays activated and stopped with its
\* connection open, a custom packet that enqueue accepted, whenever it was
\* enqueued, is handed to the connection.
C34_CustomEventuallySent ==
    <>[](activated /\ ~started /\ connection # None)
        => (CustomPending ~> CustomHandedOver)

\* C35: the custom packets reach the connection in the order in which they
\* were enqueued: of two acknowledgements handed over one after the other,
\* the second was not enqueued before the first. Without a waypoint_clear the
\* handlers enqueue acknowledgements with a next_index that never decreases.
C35_CustomFifo ==
    [][(CustomHandedOver /\ CustomFrame /\ call'.error = "none")
        => call'.packet.next_index >= call.packet.next_index]_vars

\* C36: discover raises an error when the callback is not callable, when
\* required_sensors is a set with an id outside 1..NumberOfSensors, the
\* ground station's 0 among them, and when it is neither a set nor None; it
\* raises none for None and for every subset of 1..NumberOfSensors, the empty
\* one included. It changes nothing of the sensor.
C36_DiscoverValidates ==
    [][call'.op = "discover" =>
        LET callable == call'.packet.callable
            required == call'.packet.required_sensors
            outside == {i \in required.ids : i < 1 \/ i > NumberOfSensors}
        IN  /\ call'.error # "none"
                <=> \/ ~callable
                    \/ required.kind = "set" /\ outside # {}
                    \/ required.kind \notin {"set", "None"}
            /\ (callable /\ required.kind = "set" /\ 0 \in required.ids)
                => call'.error = "ValueError"
            /\ UNCHANGED <<sensor_vars, custom_packets>>]_vars

\* discover was called with a callable and {0}, and raised ValueError.
C36_Witness ==
    /\ call.op = "discover"
    /\ call.packet.callable
    /\ call.packet.required_sensors = [kind |-> "set", ids |-> {0}]
    /\ call.error = "ValueError"

BroadcastCreated ==
    /\ call.op = "_create_rssi_broadcast_packet, callbacks"
    /\ call.pc = "return"

\* C37: the packet that _create_rssi_broadcast_packet(to_id) returns has
\* every field of rssi_broadcast: the sensor id is this node's, latitude,
\* longitude and waypoint index are those of the one call of the location
\* callback, valid and valid_pair are the pair of the one call of the validity
\* callback, which comes second and gets a broadcast request with to_id as
\* other_id and None as peer validity data.
C37_BroadcastPacketComplete ==
    BroadcastCreated =>
        LET location == call.callbacks[1]
            valid == call.callbacks[2]
        IN  /\ Len(call.callbacks) = 2
            /\ location.callback = "location"
            /\ valid.callback = "valid"
            /\ valid.request = [is_broadcast |-> TRUE, other_id |-> call.to,
                                other_valid |-> None,
                                other_valid_pair |-> None,
                                other_index |-> None]
            /\ DOMAIN call.packet
                   = {"specification", "latitude", "longitude", "valid",
                      "valid_pair", "waypoint_index", "sensor_id",
                      "timestamp"}
            /\ call.packet.specification = "rssi_broadcast"
            /\ call.packet.sensor_id = id
            /\ call.packet.latitude = location.result[1][1]
            /\ call.packet.longitude = location.result[1][2]
            /\ call.packet.waypoint_index = location.result[2]
            /\ call.packet.valid = valid.result[1]
            /\ call.packet.valid_pair = valid.result[2]

\* Sensor 1 made a broadcast for sensor 2 at <<0, 1>>, valid for itself only.
C37_Witness ==
    /\ BroadcastCreated
    /\ id = 1
    /\ call.to = 2
    /\ call.callbacks[1].result = <<<<0, 1>>, 1>>
    /\ call.callbacks[2].result = <<TRUE, FALSE>>

GroundStationCreated ==
    /\ call.op = "_create_rssi_ground_station_packet, callbacks"
    /\ call.pc = "return"

\* C38: the packet that _create_rssi_ground_station_packet(b) returns is an
\* rssi_ground_station packet with this node's id as sensor_id, with b's
\* latitude, longitude and valid as from_latitude, from_longitude and
\* from_valid, with this node's location as to_latitude and to_longitude, and
\* with to_valid the first answer of the validity callback to a request that
\* is no broadcast and carries b's sensor_id, valid, valid_pair and
\* waypoint_index.
C38_GroundStationPacket ==
    GroundStationCreated =>
        LET b == call.rssi_broadcast_packet
            location == call.callbacks[1]
            valid == call.callbacks[2]
        IN  /\ Len(call.callbacks) = 2
            /\ location.callback = "location"
            /\ valid.callback = "valid"
            /\ valid.request = [is_broadcast |-> FALSE,
                                other_id |-> b.sensor_id,
                                other_valid |-> b.valid,
                                other_valid_pair |-> b.valid_pair,
                                other_index |-> b.waypoint_index]
            /\ call.packet.specification = "rssi_ground_station"
            /\ call.packet.sensor_id = id
            /\ call.packet.from_latitude = b.latitude
            /\ call.packet.from_longitude = b.longitude
            /\ call.packet.from_valid = b.valid
            /\ call.packet.to_latitude = location.result[1][1]
            /\ call.packet.to_longitude = location.result[1][2]
            /\ call.packet.to_valid = valid.result[1]

\* Sensor 1 at <<0, 1>> made the packet for a broadcast of sensor 2 at
\* <<1, 0>>; the validity callback answered <<TRUE, FALSE>> and the broadcast
\* came with valid FALSE and valid_pair TRUE.
C38_Witness ==
    /\ GroundStationCreated
    /\ id = 1
    /\ call.rssi_broadcast_packet.sensor_id = 2
    /\ call.rssi_broadcast_packet.latitude = 1
    /\ call.rssi_broadcast_packet.longitude = 0
    /\ ~call.rssi_broadcast_packet.valid
    /\ call.rssi_broadcast_packet.valid_pair
    /\ call.callbacks[1].result[1] = <<0, 1>>
    /\ call.callbacks[2].result = <<TRUE, FALSE>>

\* The commands that the step appended to the mission.
Added == SubSeq(commands', Len(commands) + 1, Len(commands'))

\* C39: an accepted waypoint_add brings its rendezvous data into the mission:
\* with wait_id > 0 the waypoints added require the one peer wait_id, with
\* wait_id <= 0 none; with wait_count = k and wait_waypoint = w, k wait
\* entries in a row are added whose other_waypoint is w, w+1, ..., w+k-1;
\* next_index grows by 1 and one acknowledgement is enqueued.
C39_WaitMetadataCarried ==
    [][(Handled("waypoint_add") /\ call'.packet.index = next_index)
        => LET packet == call'.packet
           IN  /\ next_index' = next_index + 1
               /\ AckEnqueued(next_index + 1)
               /\ Added # <<>>
               /\ packet.wait_id <= 0
                      => \A j \in 1..Len(Added) :
                             Added[j].required_sensors = <<>>
               /\ packet.wait_id > 0
                      => /\ Len(Added) = packet.wait_count
                         /\ \A j \in 1..Len(Added) :
                                /\ Added[j].required_sensors
                                       = <<packet.wait_id>>
                                /\ "other_waypoint" \in DOMAIN Added[j]
                                /\ Added[j].other_waypoint
                                       = packet.wait_waypoint + j - 1]_vars

MissionActions == {"waypoint_clear", "waypoint_add", "waypoint_done"}

\* C40: after setup the mission is in its initial state: the actions
\* registered are waypoint_clear, waypoint_add and waypoint_done and no other,
\* each with its handler, waypoints_complete is false and next_index is 0;
\* this holds for a setup called in any state.
C40_SetupInitialises ==
    [][call'.op = "setup"
        => /\ DOMAIN packet_callbacks' = MissionActions
           /\ packet_callbacks'["waypoint_clear"] = "_clear_waypoints"
           /\ packet_callbacks'["waypoint_add"] = "_add_waypoint"
           /\ packet_callbacks'["waypoint_done"] = "_complete_waypoints"
           /\ ~waypoints_complete'
           /\ next_index' = 0]_vars

\* setup was called again on a mission that had accepted a waypoint: its
\* acknowledgement is still queued.
C40_Witness ==
    /\ call = Called("setup")
    /\ DOMAIN packet_callbacks = MissionActions
    /\ next_index = 0
    /\ ~waypoints_complete
    /\ custom_packets # <<>>
    /\ Head(custom_packets).packet.next_index = 1

====
